---- MODULE Spec2Model ----
(***************************************************************************)
(* Security scanning pipeline of the Optimisely cloud SDK:                 *)
(*   SecurityRules (rule catalog), SecurityScanner.scan (engine), the      *)
(*   provider discovery collaborators (AWS / Azure / GCP security          *)
(*   scanners), the aggregation done at the end of a scan, and             *)
(*   SecurityReporter (CSV and SARIF reports).                             *)
(*                                                                         *)
(* Strings whose inner structure matters (rule ids, resource ids and the   *)
(* vulnerability ids built from them) are sequences of tokens; the token   *)
(* "_" is the underscore character.                                        *)
(***************************************************************************)
EXTENDS Integers, Sequences, FiniteSets, TLC

(***************************************************************************)
(* Bounds of the model.                                                    *)
(***************************************************************************)
\* longest resource list an AWS discovery run hands to the engine
MaxResources == 2
\* longest resource list AWSSecurityScanner.discoverResources collects
MaxAwsResources == 3
\* longest resource list of the scans whose aggregation is examined
MaxAggResources == 4
\* number of SecurityRules.getAllRules calls followed
MaxRuleCalls == 4
\* longest vulnerability list of the results handed to the reporter
MaxReportVulns == 2
\* number of generateReport calls made with one result
MaxRenders == 2

VARIABLES
  catalog,          \* SecurityRules.rules / SecurityScanner.rules
  config,           \* SecurityScanner.config
  pc,               \* position of the scan() invocation
  options,          \* argument of scan()
  credentials,      \* argument of scan()
  scannerCreated,   \* provider collaborators constructed by getProviderScanner
  discoverCalls,    \* number of discoverResources calls made by scan()
  context,          \* SecurityScanContext built by scan()
  resources,        \* const resources (result of discovery)
  enabledRules,     \* const enabledRules
  vulnerabilities,  \* the vulnerabilities array of scan()
  evaluated,        \* number of (resource, rule) pairs the loops have passed
  checks,           \* history: every rule.check invocation, in order
  result,           \* the SecurityScanResult returned (returned = FALSE: none)
  error,            \* the error scan() threw ("" = none)
  awsPc,            \* position of AWSSecurityScanner.discoverResources
  awsCredentials,   \* its credentials argument
  awsRegions,       \* targetRegions
  awsRegion,        \* index of the region the for loop is at
  awsService,       \* index of the next per-service discovery call
  awsResources,     \* const resources of discoverResources
  awsFailed,        \* history: per-service calls that failed (caught)
  awsReturned,      \* history: the list discoverResources returned
  aggPc,            \* position of a scan() whose inventory is aggResources
  aggResources,     \* const resources of that scan()
  aggEvaluated,     \* number of (resource, rule) pairs its loops have passed
  aggVulnerabilities, \* its vulnerabilities array
  aggDiscovered,    \* history: the vulnerabilities in the order of the pushes
  aggResult,        \* the SecurityScanResult it builds
  rulesStatic,      \* SecurityRules.rules: the array instance and its items
  rulesBuilt,       \* history: number of initializeRules runs
  rulesCalls,       \* history: what every getAllRules call returned
  repPc,            \* position of SecurityReporter.generateReport
  repResult,        \* its result argument
  repFormat,        \* its format argument
  repOutput,        \* the report it returns
  repError,         \* the error it threw ("" = none)
  repPath,          \* its outputPath argument ("" = none given)
  repFiles,         \* the files written so far: path -> content
  repRenders,       \* history: every generateReport call and how it ended
  \* OptimiselySDK.getCostAnalysis on an AWS account
  costPc,           \* where the call is
  costConfigValid,  \* whether config passes validateConfig
  costResourceTypes,\* the resourceTypes argument (optional array)
  costAccount,      \* how many resources of each type the account holds
  costOptions,      \* the ScanOptions handed to scanCloud
  costStep,         \* the service scanResources is at
  costFails,        \* the service whose call fails (0 = none)
  costScanned,      \* the resource types whose service was called
  costResources,    \* scanResources' resources, per type
  costResult,       \* what getCostAnalysis returns
  costError,        \* the error it threw ("" = none)
  \* the optimisely command line program
  cliPc,            \* where the process is
  cliCommand,       \* the command given on the command line
  cliFindings,      \* what a security scan of the account finds
  cliHandlerFails,  \* whether the command's handler throws
  cliExit,          \* the exit code of the process
  \* two scan() calls in flight on one SecurityScanner
  scansRules,       \* this.rules of the instance
  scansConfig,      \* this.config of the instance
  scansPc,          \* per call: where it is
  scansOptions,     \* per call: its options
  scansDiscovered,  \* per call, history: the list its discovery returned
  scansResources,   \* per call: const resources
  scansEnabled,     \* per call: const enabledRules
  scansOutcomes,    \* per call, history: how its checks ended, in order
  scansVulns,       \* per call: const vulnerabilities
  scansResult       \* per call: the result it returned

engineVars == <<catalog, config, pc, options, credentials, scannerCreated,
                discoverCalls, context, resources, enabledRules,
                vulnerabilities, evaluated, checks, result, error>>
awsVars == <<awsPc, awsCredentials, awsRegions, awsRegion, awsService,
             awsResources, awsFailed, awsReturned>>
aggVars == <<aggPc, aggResources, aggEvaluated, aggVulnerabilities,
             aggDiscovered, aggResult>>
rulesVars == <<rulesStatic, rulesBuilt, rulesCalls>>
reportVars == <<repPc, repResult, repFormat, repOutput, repError, repPath,
                repFiles, repRenders>>
costVars == <<costPc, costConfigValid, costResourceTypes, costAccount,
              costOptions, costStep, costFails, costScanned, costResources,
              costResult, costError>>
cliVars == <<cliPc, cliCommand, cliFindings, cliHandlerFails, cliExit>>
scansVars == <<scansRules, scansConfig, scansPc, scansOptions,
               scansDiscovered, scansResources, scansEnabled, scansOutcomes,
               scansVulns, scansResult>>
vars == <<engineVars, awsVars, aggVars, rulesVars, reportVars, costVars,
          cliVars, scansVars>>

(***************************************************************************)
(* Generic helpers.                                                        *)
(***************************************************************************)
Range(s) == {s[n] : n \in 1..Len(s)}

Includes(s, x) == \E n \in 1..Len(s) : s[n] = x

RECURSIVE Filter(_, _)
Filter(s, keep) ==
  IF s = <<>> THEN <<>>
  ELSE (IF keep[Head(s)] THEN <<Head(s)>> ELSE <<>>) \o Filter(Tail(s), keep)

\* an optional array argument: undefined, or an array (possibly empty)
Undefined == [given |-> FALSE, val |-> <<>>]
Given(s) == [given |-> TRUE, val |-> s]

(***************************************************************************)
(* Rule catalog (SecurityRules).                                           *)
(***************************************************************************)
\* the double-quote character and the comma; every other token of a
\* string stands for text without either
Quote == "\""
Comma == ","

Framework(name, requirement) == [name |-> name, requirement |-> requirement]

\* complianceFrameworks of the rule with this id
RuleFrameworks(id) ==
  CASE id = "AWS-001" -> << Framework("CIS AWS Foundations", "2.1.1"),
                            Framework("SOC 2", "CC6.1") >>
    [] id = "AWS-002" -> << Framework("CIS AWS Foundations", "4.1") >>
    [] id = "AWS-003" -> << Framework("CIS AWS Foundations", "2.3.1"),
                            Framework("PCI DSS", "1.3") >>
    [] id = "AWS-004" -> << Framework("CIS AWS Foundations", "4.1") >>
    [] id = "AWS-005" -> << Framework("CIS AWS Foundations", "2.7") >>
    [] id = "AZURE-001" -> << Framework("CIS Azure Foundations", "3.1") >>
    [] id = "AZURE-002" -> << Framework("CIS Azure Foundations", "6.1") >>
    [] id = "GCP-001" -> << Framework("CIS GCP Foundations", "4.1") >>
    [] id = "MULTI-001" -> << Framework("SOC 2", "CC6.1"),
                              Framework("PCI DSS", "3.4") >>
    [] id = "CUSTOM-002" -> << Framework("SOC 2", "CC6.1"),
                               Framework("SOC 2", "CC7.2") >>
    [] OTHER -> << >>

\* remediation.automated of the rule with this id; no rule of the catalog
\* sets it (they set remediation.automatable), a custom rule may
RuleAutomated(id) ==
  IF id \in {"CUSTOM-002", "CUSTOM-004"} THEN <<"terraform apply">> ELSE << >>

\* finding.description / finding.recommendation of a failed check
RuleFinding(id) ==
  CASE id = "AWS-001" ->
         [description |-> <<"S3 bucket allows public read access", ",",
                           " which could lead to data exposure">>,
          recommendation |-> <<"Remove public read access and implement proper IAM policies">>]
    [] id = "AWS-002" ->
         [description |-> <<"EC2 instance has a public IP address", ",",
                           " increasing attack surface">>,
          recommendation |-> <<"Use NAT Gateway or VPN for outbound connectivity instead of public IPs">>]
    [] id = "AWS-003" ->
         [description |-> <<"RDS instance is publicly accessible", ",",
                           " exposing sensitive data to potential threats">>,
          recommendation |-> <<"Set publicly_accessible to false and use VPC for secure access">>]
    [] id = "AWS-004" ->
         [description |-> <<"Security group allows SSH access from anywhere on the internet">>,
          recommendation |-> <<"Restrict SSH access to specific IP ranges or use Session Manager">>]
    [] id = "AWS-005" ->
         [description |-> <<"CloudTrail logs are not encrypted at rest">>,
          recommendation |-> <<"Enable KMS encryption for CloudTrail logs">>]
    [] id = "AZURE-001" ->
         [description |-> <<"Storage account allows public blob access">>,
          recommendation |-> <<"Disable public blob access and use SAS tokens or AAD authentication">>]
    [] id = "AZURE-002" ->
         [description |-> <<"Network Security Group allows SSH access from internet">>,
          recommendation |-> <<"Restrict SSH access to specific IP ranges">>]
    [] id = "GCP-001" ->
         [description |-> <<"Compute instance has external IP address">>,
          recommendation |-> <<"Remove external IP and use Cloud NAT for outbound connectivity">>]
    [] id = "MULTI-001" ->
         [description |-> <<"Storage resource is not encrypted at rest">>,
          recommendation |-> <<"Enable encryption at rest using provider-managed or customer-managed keys">>]
    [] OTHER ->
         [description |-> <<"Tag ", Quote, "owner", Quote, " is missing">>,
          recommendation |-> <<"Set the ", Quote, "owner", Quote, " tag">>]

Rule(id, name, severity, category, provider, resourceTypes, enabled) ==
  [id |-> <<id>>, name |-> <<name>>, severity |-> severity,
   category |-> category, provider |-> provider,
   resourceTypes |-> resourceTypes, enabled |-> enabled,
   complianceFrameworks |-> RuleFrameworks(id),
   automated |-> RuleAutomated(id),
   finding |-> RuleFinding(id)]

getAWSRules ==
  << Rule("AWS-001", "S3 Bucket Public Read Access", "critical",
          "access_control", "aws", <<"aws_s3_bucket">>, TRUE),
     Rule("AWS-002", "EC2 Instance Public IP", "high",
          "network_security", "aws", <<"aws_instance">>, TRUE),
     Rule("AWS-003", "RDS Instance Public Access", "critical",
          "data_protection", "aws", <<"aws_db_instance">>, TRUE),
     Rule("AWS-004", "Security Group SSH Access", "high",
          "network_security", "aws", <<"aws_security_group">>, TRUE),
     Rule("AWS-005", "CloudTrail Encryption", "medium",
          "encryption", "aws", <<"aws_cloudtrail">>, TRUE) >>

getAzureRules ==
  << Rule("AZURE-001", "Storage Account Public Access", "critical",
          "access_control", "azure", <<"azurerm_storage_account">>, TRUE),
     Rule("AZURE-002", "Network Security Group SSH Access", "high",
          "network_security", "azure",
          <<"azurerm_network_security_group">>, TRUE) >>

getGCPRules ==
  << Rule("GCP-001", "Compute Instance Public IP", "medium",
          "network_security", "gcp", <<"google_compute_instance">>, TRUE) >>

getMultiCloudRules ==
  << Rule("MULTI-001", "Unencrypted Storage", "high", "encryption", "*",
          <<"*_storage*", "*_bucket*", "*_disk*">>, TRUE) >>

\* initializeRules: the four groups, in this order
initializeRules ==
  getAWSRules \o getAzureRules \o getGCPRules \o getMultiCloudRules

\* Rules a caller has appended to the array getAllRules() hands out (the
\* documented way to extend the scanner): the documented CUSTOM-001, a rule
\* for every provider and resource type, and a rule that is switched off.
CustomRules ==
  << Rule("CUSTOM-001", "Custom Security Check", "medium",
          "configuration", "aws", <<"aws_instance">>, TRUE),
     [Rule("CUSTOM-002", "Custom Wildcard Check", "critical",
           "compliance", "*", <<"*">>, TRUE)
        EXCEPT !.name = <<"Custom ", Quote, "Wildcard", Quote, " Check">>],
     Rule("CUSTOM-003", "Custom Disabled Check", "critical",
          "access_control", "aws", <<"aws_s3_bucket">>, FALSE) >>

Catalogs == {initializeRules, initializeRules \o CustomRules}

BuiltinIds == {initializeRules[n].id : n \in 1..Len(initializeRules)}

(***************************************************************************)
(* Resources the discovery collaborators produce.                          *)
(***************************************************************************)
Resource(id, name, type, region) ==
  [id |-> id, name |-> name, type |-> type, region |-> region]

\* regions?.[0] || dflt
FirstRegionOr(regions, dflt) ==
  IF regions.given /\ Len(regions.val) > 0 THEN regions.val[1] ELSE dflt

AzureMockResources(regions) ==
  << Resource(<<"/subscriptions/123/storageAccounts/mystorageaccount">>,
              "mystorageaccount", "azurerm_storage_account",
              FirstRegionOr(regions, "eastus")),
     Resource(<<"/subscriptions/123/networkSecurityGroups/myNSG">>,
              "myNSG", "azurerm_network_security_group",
              FirstRegionOr(regions, "eastus")),
     Resource(<<"/subscriptions/123/virtualMachines/myVM">>,
              "myVM", "azurerm_virtual_machine",
              FirstRegionOr(regions, "eastus")) >>

GCPMockResources(regions) ==
  << Resource(<<"projects/my-project/zones/us-central1-a/instances/my-instance">>,
              "my-instance", "google_compute_instance",
              FirstRegionOr(regions, "us-central1")),
     Resource(<<"projects/my-project/global/networks/default">>,
              "default", "google_compute_network", "global"),
     Resource(<<"projects/my-project/global/firewalls/default-allow-ssh">>,
              "default-allow-ssh", "google_compute_firewall", "global") >>

\* What one per-service discovery call of the AWS scanner yields when the
\* account holds one instance per region, one bucket, one database and one
\* security group per region, and one multi-region trail (describeTrails
\* lists it in every region, with the same TrailARN).
AwsServices == <<"ec2", "s3", "rds", "sg", "cloudtrail">>

AwsServiceResource(service, region) ==
  CASE service = "ec2" ->
         Resource(<<"i-" \o region>>, "i-" \o region, "aws_instance", region)
    [] service = "s3" ->
         Resource(<<"bucket-1">>, "bucket-1", "aws_s3_bucket", "us-east-1")
    [] service = "rds" ->
         Resource(<<"db-" \o region>>, "db-" \o region, "aws_db_instance", region)
    [] service = "sg" ->
         Resource(<<"sg-" \o region>>, "sg-" \o region, "aws_security_group", region)
    [] service = "cloudtrail" ->
         Resource(<<"arn:aws:cloudtrail:us-east-1:123:trail/org", "_", "trail">>,
                  "org_trail", "aws_cloudtrail", region)


\* subsequences of s (order kept) with at most n elements
RECURSIVE SubSeqs(_, _)
SubSeqs(s, n) ==
  IF s = <<>> \/ n = 0 THEN {<<>>}
  ELSE SubSeqs(Tail(s), n)
       \cup {<<Head(s)>> \o t : t \in SubSeqs(Tail(s), n - 1)}

\* regions || ['us-east-1']
TargetRegions(regions) ==
  IF regions.given THEN regions.val ELSE <<"us-east-1">>

\* the per-service calls of one pass of the region loop, in call order
\* (S3 buckets are discovered only while the loop is at us-east-1)
RegionCalls(region) ==
  Filter([n \in 1..Len(AwsServices) |-> <<AwsServices[n], region>>],
         [c \in {<<AwsServices[n], region>> : n \in 1..Len(AwsServices)} |->
            c[1] # "s3" \/ region = "us-east-1"])

RECURSIVE AwsCalls(_)
AwsCalls(regions) ==
  IF regions = <<>> THEN <<>>
  ELSE RegionCalls(Head(regions)) \o AwsCalls(Tail(regions))

\* the services in which the scanned account holds resources (its RDS and
\* security-group listings are empty)
InventoryServices == {"ec2", "s3", "cloudtrail"}

\* every list an AWS discovery run can hand to the engine: each call
\* contributes its resource or nothing (empty answer, or failure caught)
AwsResourceLists(regions) ==
  LET calls == Filter(AwsCalls(TargetRegions(regions)),
                      [c \in Range(AwsCalls(TargetRegions(regions))) |->
                         c[1] \in InventoryServices])
      all == [n \in 1..Len(calls) |->
                AwsServiceResource(calls[n][1], calls[n][2])]
  IN  SubSeqs(all, MaxResources)

(***************************************************************************)
(* Inputs of a scan.                                                       *)
(***************************************************************************)
Providers == {"aws", "azure", "gcp", "oracle"}

RegionOptions == {Undefined, Given(<<"us-east-1", "eu-west-1">>)}

SeverityOptions ==
  {Undefined, Given(<<>>), Given(<<"critical">>), Given(<<"high", "medium">>)}

CategoryOptions ==
  {Undefined, Given(<<"network_security", "compliance", "encryption">>)}

CredentialValues == {"valid", "undefined"}

ScanOptions ==
  [provider : Providers, regions : RegionOptions,
   severity : SeverityOptions, categories : CategoryOptions]

\* SecurityConfig: only rules.enabled / rules.disabled are read
NoRulesConfig == [hasRules |-> FALSE, enabled |-> <<>>, disabled |-> <<>>]

RulesConfig(enabled, disabled) ==
  [hasRules |-> TRUE, enabled |-> enabled, disabled |-> disabled]

AllowList ==
  << <<"AWS-001">>, <<"AWS-002">>, <<"AWS-005">>, <<"AZURE-001">>,
     <<"GCP-001">>, <<"CUSTOM-002">> >>

DenyList == << <<"AWS-002">>, <<"AZURE-002">> >>

Configs ==
  {NoRulesConfig, RulesConfig(<<>>, <<>>), RulesConfig(AllowList, <<>>),
   RulesConfig(<<>>, DenyList), RulesConfig(AllowList, DenyList)}

(***************************************************************************)
(* SecurityScanner: rule selection and applicability.                      *)
(***************************************************************************)
\* variant: the deny-list (config.rules.disabled) is not applied
GetEnabledRulesNoDeny(rules, cfg, provider, severities, categories) ==
  LET f0 == Filter(rules, [r \in Range(rules) |->
                r.enabled /\ (r.provider = provider \/ r.provider = "*")])
      f1 == IF severities.given /\ Len(severities.val) > 0
            THEN Filter(f0, [r \in Range(f0) |->
                              Includes(severities.val, r.severity)])
            ELSE f0
      f2 == IF categories.given /\ Len(categories.val) > 0
            THEN Filter(f1, [r \in Range(f1) |->
                              Includes(categories.val, r.category)])
            ELSE f1
      f3 == IF cfg.hasRules /\ Len(cfg.enabled) > 0
            THEN Filter(f2, [r \in Range(f2) |-> Includes(cfg.enabled, r.id)])
            ELSE f2
  IN  f3

\* variant: the severity filter is not applied
GetEnabledRulesNoSeverity(rules, cfg, provider, severities, categories) ==
  LET f0 == Filter(rules, [r \in Range(rules) |->
                r.enabled /\ (r.provider = provider \/ r.provider = "*")])
      f2 == IF categories.given /\ Len(categories.val) > 0
            THEN Filter(f0, [r \in Range(f0) |->
                              Includes(categories.val, r.category)])
            ELSE f0
      f3 == IF cfg.hasRules /\ Len(cfg.enabled) > 0
            THEN Filter(f2, [r \in Range(f2) |-> Includes(cfg.enabled, r.id)])
            ELSE f2
      f4 == IF cfg.hasRules /\ Len(cfg.disabled) > 0
            THEN Filter(f3, [r \in Range(f3) |-> ~Includes(cfg.disabled, r.id)])
            ELSE f3
  IN  f4

\* getEnabledRules(provider, severities, categories)
GetEnabledRules(rules, cfg, provider, severities, categories) ==
  LET f0 == Filter(rules, [r \in Range(rules) |->
                r.enabled /\ (r.provider = provider \/ r.provider = "*")])
      f1 == IF severities.given /\ Len(severities.val) > 0
            THEN Filter(f0, [r \in Range(f0) |->
                              Includes(severities.val, r.severity)])
            ELSE f0
      f2 == IF categories.given /\ Len(categories.val) > 0
            THEN Filter(f1, [r \in Range(f1) |->
                              Includes(categories.val, r.category)])
            ELSE f1
      f3 == IF cfg.hasRules /\ Len(cfg.enabled) > 0
            THEN Filter(f2, [r \in Range(f2) |-> Includes(cfg.enabled, r.id)])
            ELSE f2
      f4 == IF cfg.hasRules /\ Len(cfg.disabled) > 0
            THEN Filter(f3, [r \in Range(f3) |-> ~Includes(cfg.disabled, r.id)])
            ELSE f3
  IN  f4

\* variant: the resource type is not looked at
ApplicableRulesAnyType(rules, resource) == rules

\* enabledRules.filter(rule => rule.resourceTypes.includes(resource.type)
\*                            || rule.resourceTypes.includes('*'))
ApplicableRules(rules, resource) ==
  Filter(rules, [r \in Range(rules) |->
           Includes(r.resourceTypes, resource.type)
           \/ Includes(r.resourceTypes, "*")])

\* the (resource index, rule) pairs of the nested for loops, in loop order
RECURSIVE PairsFrom(_, _, _)
PairsFrom(res, rules, n) ==
  IF n > Len(res) THEN <<>>
  ELSE LET app == ApplicableRules(rules, res[n])
       IN  [m \in 1..Len(app) |-> [res |-> n, rule |-> app[m]]]
           \o PairsFrom(res, rules, n + 1)

Pairs(res, rules) == PairsFrom(res, rules, 1)

(***************************************************************************)
(* rule.check: what a check of the catalog can do with a resource.         *)
(*   "fail"  = { passed: false, finding: {...} }                           *)
(*   "pass"  = { passed: true }                                            *)
(*   "throw" = the promise rejects                                         *)
(* The Azure and GCP collaborators return fixed resources, for which the   *)
(* built-in checks have one outcome; AWS resources carry a free-form       *)
(* configuration and custom checks are arbitrary.                          *)
(***************************************************************************)
CheckOutcomes(rule, resource, provider) ==
  IF rule.id \in BuiltinIds /\ provider \in {"azure", "gcp"}
  THEN {"fail"}
  ELSE {"pass", "fail", "throw"}

RuleResult(outcome) ==
  [passed |-> outcome = "pass", finding |-> outcome = "fail"]

\* variant: the negation of result.passed is lost
ProducesVulnerabilityInverted(outcome) ==
  /\ outcome # "throw"
  /\ RuleResult(outcome).passed

\* the check returned (did not throw) and: !result.passed && result.finding
ProducesVulnerability(outcome) ==
  /\ outcome # "throw"
  /\ ~RuleResult(outcome).passed
  /\ RuleResult(outcome).finding

\* the vulnerability scan() builds for a failing pair
Vulnerability(rule, resource, provider) ==
  [id |-> rule.id \o <<"_">> \o resource.id,
   title |-> rule.name,
   severity |-> rule.severity,
   category |-> rule.category,
   resourceId |-> resource.id,
   resourceType |-> resource.type,
   resourceName |-> resource.name,
   region |-> resource.region,
   provider |-> provider,
   description |-> rule.finding.description,
   recommendation |-> rule.finding.recommendation,
   automated |-> rule.automated,
   complianceFrameworks |-> rule.complianceFrameworks,
   firstDetected |-> "Date",
   status |-> "open"]

(***************************************************************************)
(* Aggregation.                                                            *)
(***************************************************************************)
severityOrder(sev) ==
  CASE sev = "critical" -> 4 [] sev = "high" -> 3
    [] sev = "medium" -> 2 [] sev = "low" -> 1

\* Array.prototype.sort with (a, b) => severityOrder[b] - severityOrder[a]:
\* descending by severity, stable
RECURSIVE SortFrom(_, _)
SortFrom(s, k) ==
  IF k = 0 THEN <<>>
  ELSE Filter(s, [v \in Range(s) |-> severityOrder(v.severity) = k])
       \o SortFrom(s, k - 1)

\* variant: a descending sort that is not stable (equal elements reversed)
SortBySeverityUnstable(s) ==
  SortFrom([n \in 1..Len(s) |-> s[Len(s) + 1 - n]], 4)

SortBySeverity(s) == SortFrom(s, 4)

\* s.slice(0, n)
Slice(s, n) == SubSeq(s, 1, IF Len(s) < n THEN Len(s) ELSE n)

TopLimit == 10
QuickWinLimit == 5

Min(a, b) == IF a < b THEN a ELSE b

(***************************************************************************)
(* JavaScript numbers are IEEE 754 doubles.  A positive double is modelled  *)
(* as [zero, bits, exp]: 53 significand bits, most significant first (the  *)
(* first is 1), and value = (bits read as an integer) * 2^exp.  Every       *)
(* arithmetic operator rounds its exact result to nearest, ties to even.   *)
(***************************************************************************)
SignificandBits == 53

DoubleZero == [zero |-> TRUE, bits |-> <<>>, exp |-> 0]

RECURSIVE BitsValue(_)
BitsValue(bits) ==
  IF bits = <<>> THEN 0
  ELSE 2 * BitsValue(SubSeq(bits, 1, Len(bits) - 1)) + bits[Len(bits)]

\* bits + 1; one bit longer when every bit was 1
RECURSIVE Increment(_)
Increment(bits) ==
  IF bits = <<>> THEN <<1>>
  ELSE IF bits[Len(bits)] = 0
       THEN SubSeq(bits, 1, Len(bits) - 1) \o <<1>>
       ELSE Increment(SubSeq(bits, 1, Len(bits) - 1)) \o <<0>>

\* round the exact value bits * 2^exp (plus a non-zero tail below the last
\* bit when sticky) to 53 bits, nearest, ties to even; Len(bits) > 53
RoundToDouble(bits, exp, sticky) ==
  LET dropped == Len(bits) - SignificandBits
      kept == SubSeq(bits, 1, SignificandBits)
      guard == bits[SignificandBits + 1]
      tail == sticky \/ \E i \in (SignificandBits + 2)..Len(bits) : bits[i] = 1
      up == guard = 1 /\ (tail \/ kept[SignificandBits] = 1)
      inc == IF up THEN Increment(kept) ELSE kept
  IN  IF Len(inc) > SignificandBits
      THEN [zero |-> FALSE, bits |-> SubSeq(inc, 1, SignificandBits),
            exp |-> exp + dropped + 1]
      ELSE [zero |-> FALSE, bits |-> inc, exp |-> exp + dropped]

\* scale a / b by a power of two into [1, 2)
RECURSIVE Normalize(_, _, _)
Normalize(a, b, e) ==
  IF a >= 2 * b THEN Normalize(a, 2 * b, e + 1)
  ELSE IF a < b THEN Normalize(2 * a, b, e - 1)
  ELSE [a |-> a, b |-> b, e |-> e]

\* the next n bits of r / b (r < 2b) appended to acc, and the remainder
RECURSIVE QuotientBits(_, _, _, _)
QuotientBits(r, b, n, acc) ==
  IF n = 0 THEN [bits |-> acc, rem |-> r]
  ELSE IF r >= b
       THEN QuotientBits(2 * (r - b), b, n - 1, Append(acc, 1))
       ELSE QuotientBits(2 * r, b, n - 1, Append(acc, 0))

\* the double a / b of two non-negative integers that are exact doubles
DoubleDiv(a, b) ==
  IF a = 0 THEN DoubleZero
  ELSE LET n == Normalize(a, b, 0)
           q == QuotientBits(n.a, n.b, SignificandBits + 1, <<>>)
       IN  RoundToDouble(q.bits, n.e - SignificandBits, q.rem # 0)

RECURSIVE CarryBits(_)
CarryBits(c) == IF c = 0 THEN <<>> ELSE CarryBits(c \div 2) \o <<c % 2>>

\* the exact product bits * k (k a small positive integer), from the last
\* bit up: digits produced so far in acc
RECURSIVE TimesBits(_, _, _, _)
TimesBits(bits, k, carry, acc) ==
  IF bits = <<>> THEN CarryBits(carry) \o acc
  ELSE IF (bits[Len(bits)] * k + carry) % 2 = 1
       THEN TimesBits(SubSeq(bits, 1, Len(bits) - 1), k,
                      (bits[Len(bits)] * k + carry) \div 2, <<1>> \o acc)
       ELSE TimesBits(SubSeq(bits, 1, Len(bits) - 1), k,
                      (bits[Len(bits)] * k + carry) \div 2, <<0>> \o acc)

\* the double x * k, k an integer in 2..127 that is not a power of two
DoubleTimes(x, k) ==
  IF x.zero THEN DoubleZero
  ELSE RoundToDouble(TimesBits(x.bits, k, 0, <<>>), x.exp, FALSE)

\* Math.round(x): the nearest integer, ties towards +Infinity, that is
\* floor(x + 1/2) computed exactly; for 0 <= x < 2^30
MathRound(x) ==
  IF x.zero THEN 0
  ELSE LET shift == -(x.exp + 1)
           twice == IF shift >= SignificandBits THEN 0
                    ELSE BitsValue(SubSeq(x.bits, 1, SignificandBits - shift))
       IN  (twice + 1) \div 2

\* the percentage Math.round((a / b) * 100) as the code evaluates it
RoundedPercent(a, b) == MathRound(DoubleTimes(DoubleDiv(a, b), 100))

\* vulnerabilities.filter(v => v.severity === sev)
OfSeverity(vulns, sev) ==
  Filter(vulns, [v \in Range(vulns) |-> v.severity = sev])

\* variant: only the severities that occur get a key
getSeverityBreakdownObserved(vulns) ==
  [sev \in {vulns[n].severity : n \in 1..Len(vulns)} |->
     Len(OfSeverity(vulns, sev))]

\* getSeverityBreakdown: an object literal with the four keys
getSeverityBreakdown(vulns) ==
  [critical |-> Len(OfSeverity(vulns, "critical")),
   high |-> Len(OfSeverity(vulns, "high")),
   medium |-> Len(OfSeverity(vulns, "medium")),
   low |-> Len(OfSeverity(vulns, "low"))]

\* getCategoryBreakdown: breakdown[v.category] = (breakdown[v.category] || 0) + 1
RECURSIVE getCategoryBreakdown(_)
getCategoryBreakdown(vulns) ==
  IF vulns = <<>> THEN <<>>
  ELSE LET rest == getCategoryBreakdown(SubSeq(vulns, 1, Len(vulns) - 1))
           c == vulns[Len(vulns)].category
       IN  IF c \in DOMAIN rest
           THEN [rest EXCEPT ![c] = @ + 1]
           ELSE [k \in DOMAIN rest \cup {c} |->
                   IF k = c THEN 0 + 1 ELSE rest[k]]

\* first loop of generateComplianceStatus over one vulnerability's frameworks
RECURSIVE CountFrameworks(_, _)
CountFrameworks(frameworks, refs) ==
  IF refs = <<>> THEN frameworks
  ELSE LET name == refs[1].name
           known == IF name \in DOMAIN frameworks
                    THEN frameworks
                    ELSE [k \in DOMAIN frameworks \cup {name} |->
                            IF k = name
                            THEN [totalChecks |-> 0, passedChecks |-> 0,
                                  failedChecks |-> 0, score |-> 0]
                            ELSE frameworks[k]]
       IN  CountFrameworks(
             [known EXCEPT ![name] =
                [@ EXCEPT !.totalChecks = @ + 1, !.failedChecks = @ + 1]],
             Tail(refs))

\* first loop of generateComplianceStatus over the vulnerabilities
RECURSIVE CountAll(_, _)
CountAll(frameworks, vulns) ==
  IF vulns = <<>> THEN frameworks
  ELSE CountAll(CountFrameworks(frameworks, vulns[1].complianceFrameworks),
                Tail(vulns))

\* variant: failedChecks is not counted
ScoreFrameworkAllPassed(status) ==
  [status EXCEPT !.failedChecks = 0,
                 !.passedChecks = status.totalChecks,
                 !.score = RoundedPercent(status.totalChecks,
                                          status.totalChecks)]

\* second loop of generateComplianceStatus, one framework
ScoreFramework(status) ==
  [status EXCEPT !.passedChecks = status.totalChecks - status.failedChecks,
                 !.score = RoundedPercent(
                    status.totalChecks - status.failedChecks,
                    status.totalChecks)]

generateComplianceStatus(vulns) ==
  LET frameworks == CountAll(<<>>, vulns)
  IN  [name \in DOMAIN frameworks |-> ScoreFramework(frameworks[name])]

severityWeights(sev) ==
  CASE sev = "critical" -> 10 [] sev = "high" -> 7
    [] sev = "medium" -> 4 [] sev = "low" -> 1

\* vulnerabilities.reduce((sum, vuln) => sum + severityWeights[vuln.severity], 0)
RECURSIVE totalWeight(_)
totalWeight(vulns) ==
  IF vulns = <<>> THEN 0
  ELSE severityWeights(vulns[1].severity) + totalWeight(Tail(vulns))

\* calculateRiskScore; a division by zero resources gives Infinity, which
\* Math.min caps
calculateRiskScore(vulns, totalResources) ==
  IF Len(vulns) = 0 THEN 0
  ELSE IF totalResources = 0 THEN 100
  ELSE Min(100, RoundedPercent(totalWeight(vulns),
                               totalResources * severityWeights("critical")))

\* variant: the first band starts above 80
determineSecurityPostureStrict(riskScore) ==
  IF riskScore > 80 THEN "critical"
  ELSE IF riskScore > 60 THEN "poor"
  ELSE IF riskScore > 40 THEN "fair"
  ELSE IF riskScore > 20 THEN "good"
  ELSE "excellent"

determineSecurityPosture(riskScore) ==
  IF riskScore >= 80 THEN "critical"
  ELSE IF riskScore >= 60 THEN "poor"
  ELSE IF riskScore >= 40 THEN "fair"
  ELSE IF riskScore >= 20 THEN "good"
  ELSE "excellent"

\* v.remediation.automated && v.remediation.automated.length > 0
HasAutomated(v) == Len(v.automated) > 0

\* variant: the quick wins are not truncated
QuickWinsAll(vulns) ==
  Filter(vulns, [v \in Range(vulns) |-> HasAutomated(v)])

\* vulnerabilities.filter(...).slice(0, 5)
QuickWins(vulns) ==
  Slice(Filter(vulns, [v \in Range(vulns) |-> HasAutomated(v)]),
        QuickWinLimit)

\* generateSummary: sorts the array it is given IN PLACE and slices it; what
\* follows the sort reads the sorted array
generateSummary(vulns, totalResources) ==
  LET sorted == SortBySeverity(vulns)
      riskScore == calculateRiskScore(sorted, totalResources)
  IN  [sorted |-> sorted,
       summary |-> [topVulnerabilities |-> Slice(sorted, TopLimit),
                    criticalFindings |-> OfSeverity(vulns, "critical"),
                    quickWins |-> QuickWins(sorted),
                    riskScore |-> riskScore,
                    securityPosture |-> determineSecurityPosture(riskScore)]]

\* new Set(vulnerabilities.map(v => v.resourceId)).size
VulnerableCount(vulns) == Cardinality({v.resourceId : v \in Range(vulns)})

\* variant: every vulnerability counts as one vulnerable resource
ResourceCountsPerFinding(vulns, totalResources) ==
  [scanned |-> totalResources,
   vulnerable |-> Len(vulns),
   compliant |-> totalResources - Len(vulns),
   nonCompliant |-> Len(vulns)]

\* the resources member of the result literal
ResourceCounts(vulns, totalResources) ==
  [scanned |-> totalResources,
   vulnerable |-> VulnerableCount(vulns),
   compliant |-> totalResources - VulnerableCount(vulns),
   nonCompliant |-> VulnerableCount(vulns)]

\* the tail of scan(): compliance status, summary (which sorts the array),
\* then the result literal, whose members are evaluated in order
ScanResult(provider, vulns, totalResources) ==
  LET complianceStatus == generateComplianceStatus(vulns)
      agg == generateSummary(vulns, totalResources)
  IN  [returned |-> FALSE,
       provider |-> provider,
       totalResources |-> totalResources,
       totalVulnerabilities |-> Len(agg.sorted),
       severityBreakdown |-> getSeverityBreakdown(agg.sorted),
       categoryBreakdown |-> getCategoryBreakdown(agg.sorted),
       vulnerabilities |-> agg.sorted,
       complianceStatus |-> complianceStatus,
       summary |-> agg.summary,
       resources |-> ResourceCounts(agg.sorted, totalResources)]

NoResult ==
  [returned |-> FALSE, provider |-> "", totalResources |-> 0,
   totalVulnerabilities |-> 0,
   severityBreakdown |-> getSeverityBreakdown(<<>>),
   categoryBreakdown |-> <<>>,
   vulnerabilities |-> <<>>,
   complianceStatus |-> <<>>,
   summary |-> [topVulnerabilities |-> <<>>, criticalFindings |-> <<>>,
                quickWins |-> <<>>, riskScore |-> 0,
                securityPosture |-> "excellent"],
   resources |-> ResourceCounts(<<>>, 0)]

NoContext == [provider |-> "", region |-> "", allResources |-> <<>>]


(***************************************************************************)
(* Initial state: a SecurityScanner has been constructed; no scan yet.     *)
(***************************************************************************)
\* the variables of the other specifications, at rest
AggIdle ==
  /\ aggPc = "idle"
  /\ aggResources = <<>>
  /\ aggEvaluated = 0
  /\ aggVulnerabilities = <<>>
  /\ aggDiscovered = <<>>
  /\ aggResult = NoResult

RulesIdle ==
  /\ rulesStatic = [instance |-> 0, items |-> <<>>]
  /\ rulesBuilt = 0
  /\ rulesCalls = <<>>

ReportIdle ==
  /\ repPc = "idle"
  /\ repResult = NoResult
  /\ repFormat = ""
  /\ repOutput = <<>>
  /\ repError = ""
  /\ repPath = ""
  /\ repFiles = <<>>
  /\ repRenders = <<>>

CostIdle ==
  /\ costPc = "idle"
  /\ costConfigValid = TRUE
  /\ costResourceTypes = Undefined
  /\ costAccount = <<>>
  /\ costOptions = <<>>
  /\ costStep = 0
  /\ costFails = 0
  /\ costScanned = {}
  /\ costResources = <<>>
  /\ costResult = <<>>
  /\ costError = ""

CliIdle ==
  /\ cliPc = "idle"
  /\ cliCommand = ""
  /\ cliFindings = NoResult
  /\ cliHandlerFails = FALSE
  /\ cliExit = -1

ScansIdle ==
  /\ scansRules = <<>>
  /\ scansConfig = NoRulesConfig
  /\ scansPc = <<>>
  /\ scansOptions = <<>>
  /\ scansDiscovered = <<>>
  /\ scansResources = <<>>
  /\ scansEnabled = <<>>
  /\ scansOutcomes = <<>>
  /\ scansVulns = <<>>
  /\ scansResult = <<>>

Init ==
  /\ catalog \in Catalogs
  /\ config \in Configs
  /\ pc = "idle"
  /\ options \in ScanOptions
  /\ credentials \in CredentialValues
  /\ scannerCreated = {}
  /\ discoverCalls = 0
  /\ context = NoContext
  /\ resources = <<>>
  /\ enabledRules = <<>>
  /\ vulnerabilities = <<>>
  /\ evaluated = 0
  /\ checks = <<>>
  /\ result = NoResult
  /\ error = ""
  /\ awsPc = "idle"
  /\ awsCredentials = "valid"
  /\ awsRegions = <<>>
  /\ awsRegion = 1
  /\ awsService = 0
  /\ awsResources = <<>>
  /\ awsFailed = <<>>
  /\ awsReturned = [returned |-> FALSE, list |-> <<>>]
  /\ AggIdle
  /\ RulesIdle
  /\ ReportIdle
  /\ CostIdle
  /\ CliIdle
  /\ ScansIdle

(***************************************************************************)
(* SecurityScanner.scan, step by step.                                     *)
(***************************************************************************)
\* scan(options, credentials) is entered
Scan ==
  /\ pc = "idle"
  /\ pc' = "resolving"
  /\ UNCHANGED <<catalog, config, options, credentials, scannerCreated,
                 discoverCalls, context, resources, enabledRules,
                 vulnerabilities, evaluated, checks, result, error>>
  /\ UNCHANGED <<awsVars, aggVars, rulesVars, reportVars, costVars, cliVars,
               scansVars>>

\* variant: the default branch of the switch falls back to the AWS scanner
GetProviderScannerFallback ==
  /\ pc = "resolving"
  /\ scannerCreated' = scannerCreated \cup
        {IF options.provider \in {"aws", "azure", "gcp"}
         THEN options.provider ELSE "aws"}
  /\ context' = [provider |-> options.provider,
                 region |-> FirstRegionOr(options.regions, "default"),
                 allResources |-> <<>>]
  /\ pc' = "discovering"
  /\ UNCHANGED <<catalog, config, options, credentials, discoverCalls,
                 resources, enabledRules, vulnerabilities, evaluated, checks,
                 result, error>>
  /\ UNCHANGED <<awsVars, aggVars, rulesVars, reportVars, costVars, cliVars,
               scansVars>>

\* getProviderScanner(options.provider), then the context literal
GetProviderScanner ==
  /\ pc = "resolving"
  /\ IF options.provider \in {"aws", "azure", "gcp"}
     THEN /\ scannerCreated' = scannerCreated \cup {options.provider}
          /\ context' = [provider |-> options.provider,
                         region |-> FirstRegionOr(options.regions, "default"),
                         allResources |-> <<>>]
          /\ pc' = "discovering"
          /\ error' = error
     ELSE /\ error' = "Unsupported provider"
          /\ pc' = "failed"
          /\ UNCHANGED <<scannerCreated, context>>
  /\ UNCHANGED <<catalog, config, options, credentials, discoverCalls,
                 resources, enabledRules, vulnerabilities, evaluated, checks,
                 result>>
  /\ UNCHANGED <<awsVars, aggVars, rulesVars, reportVars, costVars, cliVars,
               scansVars>>

\* what scanner.discoverResources(credentials, options.regions) can do:
\* a set of result lists, empty when the call rejects
Discoverable(provider, creds, regions) ==
  CASE provider = "azure" -> {AzureMockResources(regions)}
    [] provider = "gcp" -> {GCPMockResources(regions)}
    [] provider = "aws" ->
         IF creds = "undefined" THEN {} ELSE AwsResourceLists(regions)

\* variant: a rejected discovery is swallowed and the scan goes on with
\* an empty resource list
DiscoverResourcesSwallows ==
  /\ pc = "discovering"
  /\ discoverCalls' = discoverCalls + 1
  /\ LET found == Discoverable(options.provider, credentials, options.regions)
     IN  \E list \in (IF found = {} THEN {<<>>} ELSE found) :
           /\ resources' = list
           /\ context' = [context EXCEPT !.allResources = list]
  /\ pc' = "selecting"
  /\ UNCHANGED <<catalog, config, options, credentials, scannerCreated,
                 enabledRules, vulnerabilities, evaluated, checks, result,
                 error>>
  /\ UNCHANGED <<awsVars, aggVars, rulesVars, reportVars, costVars, cliVars,
               scansVars>>

\* const resources = await scanner.discoverResources(...);
\* context.allResources = resources
DiscoverResources ==
  /\ pc = "discovering"
  /\ discoverCalls' = discoverCalls + 1
  /\ LET found == Discoverable(options.provider, credentials, options.regions)
     IN  IF found = {}
         THEN /\ error' = "discovery failed"
              /\ pc' = "failed"
              /\ UNCHANGED <<resources, context>>
         ELSE /\ \E list \in found :
                   /\ resources' = list
                   /\ context' = [context EXCEPT !.allResources = list]
              /\ pc' = "selecting"
              /\ error' = error
  /\ UNCHANGED <<catalog, config, options, credentials, scannerCreated,
                 enabledRules, vulnerabilities, evaluated, checks, result>>
  /\ UNCHANGED <<awsVars, aggVars, rulesVars, reportVars, costVars, cliVars,
               scansVars>>

\* const enabledRules = this.getEnabledRules(...); const vulnerabilities = []
SelectRules ==
  /\ pc = "selecting"
  /\ enabledRules' = GetEnabledRules(catalog, config, options.provider,
                                     options.severity, options.categories)
  /\ vulnerabilities' = <<>>
  /\ evaluated' = 0
  /\ pc' = "evaluating"
  /\ UNCHANGED <<catalog, config, options, credentials, scannerCreated,
                 discoverCalls, context, resources, checks, result, error>>
  /\ UNCHANGED <<awsVars, aggVars, rulesVars, reportVars, costVars, cliVars,
               scansVars>>

\* variant: the try / catch around rule.check is missing, so a throwing
\* check ends the scan
CheckRethrows ==
  /\ pc = "evaluating"
  /\ evaluated < Len(Pairs(resources, enabledRules))
  /\ LET pair == Pairs(resources, enabledRules)[evaluated + 1]
         resource == resources[pair.res]
         rule == pair.rule
     IN  \E outcome \in CheckOutcomes(rule, resource, options.provider) :
           /\ checks' = Append(checks,
                 [res |-> pair.res, rule |-> rule, outcome |-> outcome,
                  ctx |-> [context EXCEPT !.region = resource.region]])
           /\ vulnerabilities' =
                IF ProducesVulnerability(outcome)
                THEN Append(vulnerabilities,
                            Vulnerability(rule, resource, options.provider))
                ELSE vulnerabilities
           /\ pc' = IF outcome = "throw" THEN "failed" ELSE pc
           /\ error' = IF outcome = "throw" THEN "rule check failed" ELSE error
  /\ evaluated' = evaluated + 1
  /\ UNCHANGED <<catalog, config, options, credentials, scannerCreated,
                 discoverCalls, context, resources, enabledRules, result>>
  /\ UNCHANGED <<awsVars, aggVars, rulesVars, reportVars, costVars, cliVars,
               scansVars>>

\* variant: a check that throws is tried once more
CheckRetriesOnce ==
  /\ pc = "evaluating"
  /\ evaluated < Len(Pairs(resources, enabledRules))
  /\ LET pair == Pairs(resources, enabledRules)[evaluated + 1]
         resource == resources[pair.res]
         rule == pair.rule
     IN  \E outcome \in CheckOutcomes(rule, resource, options.provider) :
           /\ checks' = Append(checks,
                 [res |-> pair.res, rule |-> rule, outcome |-> outcome,
                  ctx |-> [context EXCEPT !.region = resource.region]])
           /\ vulnerabilities' =
                IF ProducesVulnerability(outcome)
                THEN Append(vulnerabilities,
                            Vulnerability(rule, resource, options.provider))
                ELSE vulnerabilities
  /\ evaluated' =
       IF /\ Len(checks') > 0
          /\ checks'[Len(checks')].outcome = "throw"
          /\ \/ checks = <<>>
             \/ checks[Len(checks)].outcome # "throw"
       THEN evaluated
       ELSE evaluated + 1
  /\ UNCHANGED <<catalog, config, pc, options, credentials, scannerCreated,
                 discoverCalls, context, resources, enabledRules, result,
                 error>>
  /\ UNCHANGED <<awsVars, aggVars, rulesVars, reportVars, costVars, cliVars,
               scansVars>>

\* variant: the check is handed the scan's context as it is, with the
\* scan-wide region
CheckScanRegion ==
  /\ pc = "evaluating"
  /\ evaluated < Len(Pairs(resources, enabledRules))
  /\ LET pair == Pairs(resources, enabledRules)[evaluated + 1]
         resource == resources[pair.res]
         rule == pair.rule
     IN  \E outcome \in CheckOutcomes(rule, resource, options.provider) :
           /\ checks' = Append(checks,
                 [res |-> pair.res, rule |-> rule, outcome |-> outcome,
                  ctx |-> context])
           /\ vulnerabilities' =
                IF ProducesVulnerability(outcome)
                THEN Append(vulnerabilities,
                            Vulnerability(rule, resource, options.provider))
                ELSE vulnerabilities
  /\ evaluated' = evaluated + 1
  /\ UNCHANGED <<catalog, config, pc, options, credentials, scannerCreated,
                 discoverCalls, context, resources, enabledRules, result,
                 error>>
  /\ UNCHANGED <<awsVars, aggVars, rulesVars, reportVars, costVars, cliVars,
               scansVars>>

\* one pass of the inner loop body: await rule.check(resource, {...context,
\* region: resource.region}) inside try / catch
Check ==
  /\ pc = "evaluating"
  /\ evaluated < Len(Pairs(resources, enabledRules))
  /\ LET pair == Pairs(resources, enabledRules)[evaluated + 1]
         resource == resources[pair.res]
         rule == pair.rule
     IN  \E outcome \in CheckOutcomes(rule, resource, options.provider) :
           /\ checks' = Append(checks,
                 [res |-> pair.res, rule |-> rule, outcome |-> outcome,
                  ctx |-> [context EXCEPT !.region = resource.region]])
           /\ vulnerabilities' =
                IF ProducesVulnerability(outcome)
                THEN Append(vulnerabilities,
                            Vulnerability(rule, resource, options.provider))
                ELSE vulnerabilities
  /\ evaluated' = evaluated + 1
  /\ UNCHANGED <<catalog, config, pc, options, credentials, scannerCreated,
                 discoverCalls, context, resources, enabledRules, result,
                 error>>
  /\ UNCHANGED <<awsVars, aggVars, rulesVars, reportVars, costVars, cliVars,
               scansVars>>

\* variant: the loops stop one pair short
AggregateBeforeLast ==
  /\ pc = "evaluating"
  /\ evaluated >= Len(Pairs(resources, enabledRules)) - 1
  /\ LET res == ScanResult(options.provider, vulnerabilities,
                           Len(resources))
     IN  /\ vulnerabilities' = res.vulnerabilities
         /\ result' = res
  /\ pc' = "aggregating"
  /\ UNCHANGED <<catalog, config, options, credentials, scannerCreated,
                 discoverCalls, context, resources, enabledRules, evaluated,
                 checks, error>>
  /\ UNCHANGED <<awsVars, aggVars, rulesVars, reportVars, costVars, cliVars,
               scansVars>>

\* the loops are over: generateComplianceStatus, generateSummary (which
\* sorts the vulnerabilities array itself) and the result literal, which
\* holds that same array
Aggregate ==
  /\ pc = "evaluating"
  /\ evaluated = Len(Pairs(resources, enabledRules))
  /\ LET res == ScanResult(options.provider, vulnerabilities,
                           Len(resources))
     IN  /\ vulnerabilities' = res.vulnerabilities
         /\ result' = res
  /\ pc' = "aggregating"
  /\ UNCHANGED <<catalog, config, options, credentials, scannerCreated,
                 discoverCalls, context, resources, enabledRules, evaluated,
                 checks, error>>
  /\ UNCHANGED <<awsVars, aggVars, rulesVars, reportVars, costVars, cliVars,
               scansVars>>

\* return result
Return ==
  /\ pc = "aggregating"
  /\ result' = [result EXCEPT !.returned = TRUE]
  /\ pc' = "done"
  /\ UNCHANGED <<catalog, config, options, credentials, scannerCreated,
                 discoverCalls, context, resources, enabledRules,
                 vulnerabilities, evaluated, checks, error>>
  /\ UNCHANGED <<awsVars, aggVars, rulesVars, reportVars, costVars, cliVars,
               scansVars>>

Next ==
  \/ Scan
  \/ GetProviderScanner
  \/ DiscoverResources
  \/ SelectRules
  \/ Check
  \/ Aggregate
  \/ Return

Spec == Init /\ [][Next]_vars

\* the engine under its scheduling: whatever scan() awaits (discovery, a
\* rule.check) settles, and the event loop then runs the continuation, so
\* an unfinished scan does not stay where it is: its phase or its position
\* in the loops moves on
Phases ==
  {"idle", "resolving", "discovering", "selecting", "evaluating",
   "aggregating", "done", "failed"}

Continues ==
  /\ pc \notin {"done", "failed"}
  /\ pc' \in Phases
  /\ evaluated' \in 0..(evaluated + 1)
  /\ <<pc', evaluated'>> # <<pc, evaluated>>

\* the engines of these scans: built without a config, or with both lists
InitLive ==
  /\ Init
  /\ config \in {NoRulesConfig, RulesConfig(AllowList, DenyList)}

SpecLive ==
  InitLive /\ [][Next]_vars /\ WF_<<pc, evaluated>>(Continues)

(***************************************************************************)
(* AWSSecurityScanner.discoverResources, step by step.                     *)
(***************************************************************************)
AwsRegionInputs ==
  {Undefined, Given(<<>>), Given(<<"us-east-1">>),
   Given(<<"us-east-1", "eu-west-1">>), Given(<<"eu-west-1", "us-east-1">>)}

InitAWS ==
  /\ catalog = initializeRules
  /\ config = NoRulesConfig
  /\ pc = "idle"
  /\ options = [provider |-> "aws", regions |-> Undefined,
                severity |-> Undefined, categories |-> Undefined]
  /\ credentials = "valid"
  /\ scannerCreated = {}
  /\ discoverCalls = 0
  /\ context = NoContext
  /\ resources = <<>>
  /\ enabledRules = <<>>
  /\ vulnerabilities = <<>>
  /\ evaluated = 0
  /\ checks = <<>>
  /\ result = NoResult
  /\ error = ""
  /\ awsPc = "idle"
  /\ awsCredentials \in CredentialValues
  /\ \E r \in AwsRegionInputs : awsRegions = TargetRegions(r)
  /\ awsRegion = 1
  /\ awsService = 0
  /\ awsResources = <<>>
  /\ awsFailed = <<>>
  /\ awsReturned = [returned |-> FALSE, list |-> <<>>]
  /\ AggIdle
  /\ RulesIdle
  /\ ReportIdle
  /\ CostIdle
  /\ CliIdle
  /\ ScansIdle

\* discoverResources(credentials, regions) is entered
AwsDiscoverResources ==
  /\ awsPc = "idle"
  /\ awsPc' = "loop"
  /\ UNCHANGED <<awsCredentials, awsRegions, awsRegion, awsService,
                 awsResources, awsFailed, awsReturned>>
  /\ UNCHANGED <<engineVars, aggVars, rulesVars, reportVars, costVars, cliVars,
               scansVars>>

\* top of the loop body: AWS.config.update({accessKeyId:
\* credentials.aws?.accessKeyId, ...}) and the service clients; reading
\* credentials.aws throws when credentials is undefined
AwsConfigUpdate ==
  /\ awsPc = "loop"
  /\ awsRegion <= Len(awsRegions)
  /\ awsService = 0
  /\ IF awsCredentials = "undefined"
     THEN /\ awsPc' = "threw"
          /\ awsService' = awsService
     ELSE /\ awsPc' = awsPc
          /\ awsService' = 1
  /\ UNCHANGED <<awsCredentials, awsRegions, awsRegion, awsResources,
                 awsFailed, awsReturned>>
  /\ UNCHANGED <<engineVars, aggVars, rulesVars, reportVars, costVars, cliVars,
               scansVars>>

\* variant: the per-service try / catch blocks are missing, so a failing
\* call makes discoverResources reject
AwsDiscoverServiceRethrows ==
  /\ awsPc = "loop"
  /\ awsRegion <= Len(awsRegions)
  /\ awsService \in 1..Len(AwsServices)
  /\ LET service == AwsServices[awsService]
         region == awsRegions[awsRegion]
     IN  IF service = "s3" /\ region # "us-east-1"
         THEN UNCHANGED <<awsResources, awsFailed, awsPc>>
         ELSE \/ /\ awsFailed' = Append(awsFailed, <<service, region>>)
                 /\ awsResources' = awsResources
                 /\ awsPc' = "threw"
              \/ /\ awsFailed' = awsFailed
                 /\ awsResources' = awsResources
                 /\ awsPc' = awsPc
              \/ /\ Len(awsResources) < MaxAwsResources
                 /\ awsFailed' = awsFailed
                 /\ awsResources' =
                      Append(awsResources, AwsServiceResource(service, region))
                 /\ awsPc' = awsPc
  /\ IF awsService = Len(AwsServices)
     THEN awsRegion' = awsRegion + 1 /\ awsService' = 0
     ELSE awsRegion' = awsRegion /\ awsService' = awsService + 1
  /\ UNCHANGED <<awsCredentials, awsRegions, awsReturned>>
  /\ UNCHANGED <<engineVars, aggVars, rulesVars, reportVars, costVars, cliVars,
               scansVars>>

\* one of the five try { resources.push(...await discoverX(region)) }
\* catch { console.warn(...) } blocks (the S3 block only at us-east-1)
AwsDiscoverService ==
  /\ awsPc = "loop"
  /\ awsRegion <= Len(awsRegions)
  /\ awsService \in 1..Len(AwsServices)
  /\ LET service == AwsServices[awsService]
         region == awsRegions[awsRegion]
     IN  IF service = "s3" /\ region # "us-east-1"
         THEN UNCHANGED <<awsResources, awsFailed>>
         ELSE \/ /\ awsFailed' = Append(awsFailed, <<service, region>>)
                 /\ awsResources' = awsResources
              \/ /\ awsFailed' = awsFailed
                 /\ awsResources' = awsResources
              \/ /\ Len(awsResources) < MaxAwsResources
                 /\ awsFailed' = awsFailed
                 /\ awsResources' =
                      Append(awsResources, AwsServiceResource(service, region))
  /\ IF awsService = Len(AwsServices)
     THEN awsRegion' = awsRegion + 1 /\ awsService' = 0
     ELSE awsRegion' = awsRegion /\ awsService' = awsService + 1
  /\ UNCHANGED <<awsPc, awsCredentials, awsRegions, awsReturned>>
  /\ UNCHANGED <<engineVars, aggVars, rulesVars, reportVars, costVars, cliVars,
               scansVars>>

\* return resources
AwsReturn ==
  /\ awsPc = "loop"
  /\ awsRegion > Len(awsRegions)
  /\ awsReturned' = [returned |-> TRUE, list |-> awsResources]
  /\ awsPc' = "returned"
  /\ UNCHANGED <<awsCredentials, awsRegions, awsRegion, awsService,
                 awsResources, awsFailed>>
  /\ UNCHANGED <<engineVars, aggVars, rulesVars, reportVars, costVars, cliVars,
               scansVars>>

NextAWS ==
  \/ AwsDiscoverResources
  \/ AwsConfigUpdate
  \/ AwsDiscoverService
  \/ AwsReturn

SpecAWS == InitAWS /\ [][NextAWS]_vars

(***************************************************************************)
(* The tail of scan() on larger inventories: the evaluation loops of a     *)
(* scan of an AWS account with up to MaxAggResources resources, under the  *)
(* catalog extended with custom rules, then the aggregation.               *)
(***************************************************************************)
EngineIdle ==
  /\ catalog = initializeRules
  /\ config = NoRulesConfig
  /\ pc = "idle"
  /\ options = [provider |-> "aws", regions |-> Undefined,
                severity |-> Undefined, categories |-> Undefined]
  /\ credentials = "valid"
  /\ scannerCreated = {}
  /\ discoverCalls = 0
  /\ context = NoContext
  /\ resources = <<>>
  /\ enabledRules = <<>>
  /\ vulnerabilities = <<>>
  /\ evaluated = 0
  /\ checks = <<>>
  /\ result = NoResult
  /\ error = ""

AwsIdle ==
  /\ awsPc = "idle"
  /\ awsCredentials = "valid"
  /\ awsRegions = <<>>
  /\ awsRegion = 1
  /\ awsService = 0
  /\ awsResources = <<>>
  /\ awsFailed = <<>>
  /\ awsReturned = [returned |-> FALSE, list |-> <<>>]

\* a custom rule of low severity whose remediation can be automated
LowRules ==
  << Rule("CUSTOM-004", "Custom Tag Check", "low", "configuration", "aws",
          <<"aws_instance">>, TRUE) >>

\* const enabledRules of these scans
AggRules ==
  GetEnabledRules(initializeRules \o CustomRules \o LowRules, NoRulesConfig,
                  "aws", Undefined, Undefined)

\* the resources of the account, in discovery order
AggPool ==
  << Resource(<<"i-0a1">>, "web-1", "aws_instance", "us-east-1"),
     Resource(<<"bucket-1">>, "bucket-1", "aws_s3_bucket", "us-east-1"),
     Resource(<<"i-0a2">>, "web-2", "aws_instance", "us-east-1"),
     Resource(<<"i-0a3">>, "web-3", "aws_instance", "eu-west-1"),
     Resource(<<"sg-0b1">>, "default", "aws_security_group", "eu-west-1"),
     Resource(<<"i-0a4">>, "web-4", "aws_instance", "eu-west-1") >>

InitAgg ==
  /\ EngineIdle
  /\ AwsIdle
  /\ RulesIdle
  /\ ReportIdle
  /\ CostIdle
  /\ CliIdle
  /\ ScansIdle
  /\ aggPc = "evaluating"
  /\ \E n \in 0..Min(MaxAggResources, Len(AggPool)) :
       aggResources = SubSeq(AggPool, 1, n)
  /\ aggEvaluated = 0
  /\ aggVulnerabilities = <<>>
  /\ aggDiscovered = <<>>
  /\ aggResult = NoResult

\* one iteration of the inner loop
AggCheck ==
  /\ aggPc = "evaluating"
  /\ aggEvaluated < Len(Pairs(aggResources, AggRules))
  /\ LET pair == Pairs(aggResources, AggRules)[aggEvaluated + 1]
         resource == aggResources[pair.res]
     IN  \E outcome \in CheckOutcomes(pair.rule, resource, "aws") :
           IF ProducesVulnerability(outcome)
           THEN /\ aggVulnerabilities' =
                     Append(aggVulnerabilities,
                            Vulnerability(pair.rule, resource, "aws"))
                /\ aggDiscovered' =
                     Append(aggDiscovered,
                            Vulnerability(pair.rule, resource, "aws"))
           ELSE UNCHANGED <<aggVulnerabilities, aggDiscovered>>
  /\ aggEvaluated' = aggEvaluated + 1
  /\ UNCHANGED <<aggPc, aggResources, aggResult>>
  /\ UNCHANGED <<engineVars, awsVars, rulesVars, reportVars, costVars, cliVars,
               scansVars>>

\* the loops are over: the result is built (the summary sorts the array)
AggSummarise ==
  /\ aggPc = "evaluating"
  /\ aggEvaluated = Len(Pairs(aggResources, AggRules))
  /\ LET res == ScanResult("aws", aggVulnerabilities, Len(aggResources))
     IN  /\ aggVulnerabilities' = res.vulnerabilities
         /\ aggResult' = [res EXCEPT !.returned = TRUE]
  /\ aggPc' = "done"
  /\ UNCHANGED <<aggResources, aggEvaluated, aggDiscovered>>
  /\ UNCHANGED <<engineVars, awsVars, rulesVars, reportVars, costVars, cliVars,
               scansVars>>

NextAgg ==
  \/ AggCheck
  \/ AggSummarise

SpecAgg == InitAgg /\ [][NextAgg]_vars

(***************************************************************************)
(* SecurityRules: the lazily built static catalog.  getAllRules is         *)
(* synchronous, so on the single JavaScript thread a call runs to its end  *)
(* before another call starts: a call is one step, and the calls of        *)
(* several callers interleave call by call.                                *)
(***************************************************************************)
\* the call sites of getAllRules
Callers ==
  {"SecurityScanner", "getRuleById", "getRulesByProvider",
   "getRulesByCategory", "getRulesBySeverity"}

\* rules.map(rule => rule.id)
Ids(rules) == [n \in 1..Len(rules) |-> rules[n].id]

InitRules ==
  /\ EngineIdle
  /\ AwsIdle
  /\ AggIdle
  /\ ReportIdle
  /\ CostIdle
  /\ CliIdle
  /\ ScansIdle
  /\ rulesStatic = [instance |-> 0, items |-> <<>>]
  /\ rulesBuilt = 0
  /\ rulesCalls = <<>>

\* variant: the catalog is built on every call
GetAllRulesRebuilds(caller) ==
  /\ Len(rulesCalls) < MaxRuleCalls
  /\ rulesStatic' = [instance |-> rulesBuilt + 1, items |-> initializeRules]
  /\ rulesBuilt' = rulesBuilt + 1
  /\ rulesCalls' = Append(rulesCalls,
                          [caller |-> caller,
                           instance |-> rulesStatic'.instance,
                           ids |-> Ids(rulesStatic'.items)])
  /\ UNCHANGED <<engineVars, awsVars, aggVars, reportVars, costVars, cliVars,
               scansVars>>

\* getAllRules: initializeRules assigns a new array when the static one is
\* empty; the static array itself is returned
GetAllRules(caller) ==
  /\ Len(rulesCalls) < MaxRuleCalls
  /\ IF Len(rulesStatic.items) = 0
     THEN /\ rulesStatic' = [instance |-> rulesBuilt + 1,
                             items |-> initializeRules]
          /\ rulesBuilt' = rulesBuilt + 1
     ELSE UNCHANGED <<rulesStatic, rulesBuilt>>
  /\ rulesCalls' = Append(rulesCalls,
                          [caller |-> caller,
                           instance |-> rulesStatic'.instance,
                           ids |-> Ids(rulesStatic'.items)])
  /\ UNCHANGED <<engineVars, awsVars, aggVars, reportVars, costVars, cliVars,
               scansVars>>

NextRules == \E caller \in Callers : GetAllRules(caller)

SpecRules == InitRules /\ [][NextRules]_vars

(***************************************************************************)
(* SecurityReporter.generateReport for the formats csv and sarif and for   *)
(* an unsupported format.  Strings are sequences of tokens; a report is    *)
(* kept in the structure it has before it is joined into one string: the  *)
(* CSV report as its lines, the SARIF report as the object handed to       *)
(* JSON.stringify.                                                         *)
(***************************************************************************)
\* a plain string as a sequence of tokens
Text(str) == IF str = "" THEN <<>> ELSE <<str>>

\* value || ''
OrEmpty(str) == Text(str)

\* Date.prototype.toISOString
toISOString(date) == <<"2024-05-01T12:00:00.000Z">>

\* str.replace(/"/g, '""')
RECURSIVE EscapeQuotes(_)
EscapeQuotes(str) ==
  IF str = <<>> THEN <<>>
  ELSE (IF Head(str) = Quote THEN <<Quote, Quote>> ELSE <<Head(str)>>)
       \o EscapeQuotes(Tail(str))

\* cells.join(',')
RECURSIVE Join(_)
Join(cells) ==
  IF cells = <<>> THEN <<>>
  ELSE IF Len(cells) = 1 THEN cells[1]
  ELSE cells[1] \o <<Comma>> \o Join(Tail(cells))

CsvHeaders ==
  << <<"Vulnerability ID">>, <<"Title">>, <<"Severity">>, <<"Category">>,
     <<"Resource ID">>, <<"Resource Type">>, <<"Resource Name">>,
     <<"Region">>, <<"Provider">>, <<"Description">>, <<"Recommendation">>,
     <<"Status">>, <<"First Detected">> >>

\* the cells of one row: only description and recommendation are escaped
CsvRow(vuln) ==
  << vuln.id, vuln.title, Text(vuln.severity), Text(vuln.category),
     vuln.resourceId, Text(vuln.resourceType), OrEmpty(vuln.resourceName),
     OrEmpty(vuln.region), Text(vuln.provider),
     EscapeQuotes(vuln.description), EscapeQuotes(vuln.recommendation),
     Text(vuln.status), toISOString(vuln.firstDetected) >>

\* row.map(cell => `"${cell}"`).join(',')
CsvLine(row) ==
  Join([n \in 1..Len(row) |-> <<Quote>> \o row[n] \o <<Quote>>])

\* generateCSV: the header line, then one line per vulnerability
generateCSV(res) ==
  <<Join(CsvHeaders)>>
  \o [n \in 1..Len(res.vulnerabilities) |->
        CsvLine(CsvRow(res.vulnerabilities[n]))]

\* vuln.id.split('_')[0]
RECURSIVE BeforeUnderscore(_)
BeforeUnderscore(str) ==
  IF str = <<>> \/ Head(str) = "_" THEN <<>>
  ELSE <<Head(str)>> \o BeforeUnderscore(Tail(str))

\* variant: the level follows the four severities one to one
getSarifLevelGraded(severity) ==
  CASE severity = "critical" -> "error"
    [] severity = "high" -> "warning"
    [] severity = "medium" -> "note"
    [] OTHER -> "none"

getSarifLevel(severity) ==
  CASE severity = "critical" -> "error"
    [] severity = "high" -> "error"
    [] severity = "medium" -> "warning"
    [] severity = "low" -> "note"
    [] OTHER -> "note"

SarifRule(vuln) ==
  [id |-> BeforeUnderscore(vuln.id),
   shortDescription |-> [text |-> vuln.title],
   fullDescription |-> [text |-> vuln.description],
   help |-> [text |-> vuln.recommendation],
   properties |-> [category |-> vuln.category, severity |-> vuln.severity]]

SarifResult(vuln) ==
  [ruleId |-> BeforeUnderscore(vuln.id),
   level |-> getSarifLevel(vuln.severity),
   message |-> [text |-> vuln.description],
   locations |->
     << [physicalLocation |->
           [artifactLocation |-> [uri |-> vuln.resourceId],
            region |-> [startLine |-> 1, startColumn |-> 1]]] >>,
   properties |-> [resourceType |-> vuln.resourceType,
                   resourceName |-> vuln.resourceName,
                   region |-> vuln.region,
                   provider |-> vuln.provider,
                   category |-> vuln.category,
                   recommendation |-> vuln.recommendation]]

\* generateSARIF: the object that is serialised
generateSARIF(res) ==
  [version |-> "2.1.0",
   runs |->
     << [tool |->
           [driver |->
              [name |-> "optimisely-security-scanner",
               rules |-> [n \in 1..Len(res.vulnerabilities) |->
                            SarifRule(res.vulnerabilities[n])]]],
         results |-> [n \in 1..Len(res.vulnerabilities) |->
                        SarifResult(res.vulnerabilities[n])]] >>]

\* the suites of generateJUnit: reduce into an object keyed by category,
\* whose entries come back in the order the keys were added
RECURSIVE GroupByCategory(_, _)
GroupByCategory(vulns, suites) ==
  IF vulns = <<>> THEN suites
  ELSE IF \E n \in 1..Len(suites) : suites[n].name = Head(vulns).category
       THEN GroupByCategory(
              Tail(vulns),
              [n \in 1..Len(suites) |->
                 IF suites[n].name = Head(vulns).category
                 THEN [suites[n] EXCEPT
                         !.vulnerabilities = Append(@, Head(vulns))]
                 ELSE suites[n]])
       ELSE GroupByCategory(
              Tail(vulns),
              Append(suites, [name |-> Head(vulns).category,
                              vulnerabilities |-> <<Head(vulns)>>]))

\* value || other
OrElse(str, other) == IF str = "" THEN other ELSE Text(str)

JUnitTestCase(vuln) ==
  [name |-> vuln.title,
   classname |-> vuln.resourceType,
   failure |-> [message |-> vuln.description,
                type |-> vuln.severity,
                resource |-> OrElse(vuln.resourceName, vuln.resourceId),
                resourceType |-> vuln.resourceType,
                region |-> OrElse(vuln.region, <<"N/A">>),
                recommendation |-> vuln.recommendation]]

\* variant: the suite counts the distinct resource types of its test cases
JUnitSuiteByClass(suite) ==
  [name |-> suite.name,
   tests |-> Cardinality({suite.vulnerabilities[n].resourceType :
                            n \in 1..Len(suite.vulnerabilities)}),
   failures |-> Cardinality({suite.vulnerabilities[n].resourceType :
                               n \in 1..Len(suite.vulnerabilities)}),
   testcases |-> [n \in 1..Len(suite.vulnerabilities) |->
                    JUnitTestCase(suite.vulnerabilities[n])]]

JUnitSuite(suite) ==
  [name |-> suite.name,
   tests |-> Len(suite.vulnerabilities),
   failures |-> Len(suite.vulnerabilities),
   testcases |-> [n \in 1..Len(suite.vulnerabilities) |->
                    JUnitTestCase(suite.vulnerabilities[n])]]

\* generateJUnit: the elements and attributes the template lays out
generateJUnit(res) ==
  LET testSuites == GroupByCategory(res.vulnerabilities, <<>>)
  IN  [name |-> "SecurityScan",
       tests |-> res.totalVulnerabilities,
       failures |-> res.totalVulnerabilities,
       testsuites |-> [n \in 1..Len(testSuites) |->
                         JUnitSuite(testSuites[n])]]

\* generateJSON: JSON.stringify(result, null, 2), every member of the
\* result as it is
generateJSON(res) == [json |-> res]

\* generateVulnerabilityHTML
VulnerabilityHTML(vuln) ==
  [title |-> vuln.title,
   severity |-> vuln.severity,
   description |-> vuln.description,
   resource |-> OrElse(vuln.resourceName, vuln.resourceId),
   type |-> vuln.resourceType,
   region |-> OrElse(vuln.region, <<"N/A">>),
   category |-> [upper |-> vuln.category],
   recommendation |-> vuln.recommendation]

\* generateHTML: the values the template interpolates, in page order; a
\* compliance rate over no resources is NaN
generateHTML(res) ==
  [provider |-> [upper |-> res.provider],
   totalVulnerabilities |-> res.totalVulnerabilities,
   severityBreakdown |-> res.severityBreakdown,
   securityPosture |-> res.summary.securityPosture,
   riskScore |-> res.summary.riskScore,
   scanned |-> res.resources.scanned,
   vulnerable |-> res.resources.vulnerable,
   complianceRate |->
     IF res.resources.scanned = 0 THEN "NaN"
     ELSE ToString(RoundedPercent(res.resources.compliant,
                                  res.resources.scanned)),
   criticalFindings |->
     [n \in 1..Len(res.summary.criticalFindings) |->
        VulnerabilityHTML(res.summary.criticalFindings[n])],
   vulnerabilities |->
     [n \in 1..Len(res.vulnerabilities) |->
        VulnerabilityHTML(res.vulnerabilities[n])],
   complianceStatus |-> res.complianceStatus]

\* format.toLowerCase()
toLowerCase(format) ==
  CASE format = "CSV" -> "csv"
    [] format = "Sarif" -> "sarif"
    [] OTHER -> format

Formats == {"json", "html", "csv", "CSV", "sarif", "junit", "xml"}

\* outputPath: none, or a path that can be written
OutputPaths == {"", "report.out"}

\* the resources and the findings the reported scans can have
ReportResources == SubSeq(AggPool, 1, 2)

ReportFindings ==
  LET pairs == Pairs(ReportResources, AggRules)
  IN  [n \in 1..Len(pairs) |->
         Vulnerability(pairs[n].rule, ReportResources[pairs[n].res], "aws")]

\* the results of those scans with at most MaxReportVulns vulnerabilities
ReportResults ==
  {[ScanResult("aws", v, Len(ReportResources)) EXCEPT !.returned = TRUE] :
     v \in SubSeqs(ReportFindings, MaxReportVulns)}

InitReport ==
  /\ EngineIdle
  /\ AwsIdle
  /\ AggIdle
  /\ RulesIdle
  /\ CostIdle
  /\ CliIdle
  /\ ScansIdle
  /\ repPc = "called"
  /\ repResult \in ReportResults
  /\ repFormat \in Formats
  /\ repOutput = <<>>
  /\ repError = ""
  /\ repPath \in OutputPaths
  /\ repFiles = <<>>
  /\ repRenders = <<>>

\* if (outputPath) writeFileSync(outputPath, content)
WriteFile(files, path, content) ==
  IF path = "" THEN files
  ELSE [f \in DOMAIN files \cup {path} |->
          IF f = path THEN content ELSE files[f]]

\* a generator writes its content when a path was given and returns it
Returned(content) ==
  /\ repOutput' = content
  /\ repFiles' = WriteFile(repFiles, repPath, content)
  /\ repRenders' = Append(repRenders,
                          [format |-> repFormat, ok |-> TRUE,
                           output |-> content,
                           before |-> repFiles,
                           files |-> WriteFile(repFiles, repPath, content),
                           result |-> repResult])
  /\ repPc' = "returned"
  /\ UNCHANGED <<repResult, repFormat, repError, repPath>>
  /\ UNCHANGED <<engineVars, awsVars, aggVars, rulesVars, costVars, cliVars,
               scansVars>>

\* case 'json'
GenerateReportJSON ==
  /\ repPc = "called"
  /\ toLowerCase(repFormat) = "json"
  /\ Returned(generateJSON(repResult))

\* case 'html'
GenerateReportHTML ==
  /\ repPc = "called"
  /\ toLowerCase(repFormat) = "html"
  /\ Returned(generateHTML(repResult))

\* case 'csv'
GenerateReportCSV ==
  /\ repPc = "called"
  /\ toLowerCase(repFormat) = "csv"
  /\ Returned(generateCSV(repResult))

\* case 'sarif'
GenerateReportSARIF ==
  /\ repPc = "called"
  /\ toLowerCase(repFormat) = "sarif"
  /\ Returned(generateSARIF(repResult))

\* case 'junit'
GenerateReportJUnit ==
  /\ repPc = "called"
  /\ toLowerCase(repFormat) = "junit"
  /\ Returned(generateJUnit(repResult))

\* variant: the output file is emptied before the format is looked at
GenerateReportUnsupportedTruncates ==
  /\ repPc = "called"
  /\ toLowerCase(repFormat) \notin {"json", "html", "csv", "sarif", "junit"}
  /\ repError' = "Unsupported format: " \o repFormat
  /\ repPc' = "threw"
  /\ repFiles' = WriteFile(repFiles, repPath, <<>>)
  /\ repRenders' = Append(repRenders,
                          [format |-> repFormat, ok |-> FALSE,
                           output |-> <<>>,
                           before |-> repFiles,
                           files |-> WriteFile(repFiles, repPath, <<>>),
                           result |-> repResult])
  /\ UNCHANGED <<repResult, repFormat, repOutput, repPath>>
  /\ UNCHANGED <<engineVars, awsVars, aggVars, rulesVars, costVars, cliVars,
               scansVars>>

\* default: throw new Error(`Unsupported format: ${format}`)
GenerateReportUnsupported ==
  /\ repPc = "called"
  /\ toLowerCase(repFormat) \notin {"json", "html", "csv", "sarif", "junit"}
  /\ repError' = "Unsupported format: " \o repFormat
  /\ repPc' = "threw"
  /\ repRenders' = Append(repRenders,
                          [format |-> repFormat, ok |-> FALSE,
                           output |-> <<>>,
                           before |-> repFiles,
                           files |-> repFiles,
                           result |-> repResult])
  /\ UNCHANGED <<repResult, repFormat, repOutput, repPath, repFiles>>
  /\ UNCHANGED <<engineVars, awsVars, aggVars, rulesVars, costVars, cliVars,
               scansVars>>

\* the caller renders the same result again, in any format
GenerateReport ==
  /\ repPc \in {"returned", "threw"}
  /\ Len(repRenders) < MaxRenders
  /\ repFormat' \in Formats
  /\ repPc' = "called"
  /\ repOutput' = <<>>
  /\ repError' = ""
  /\ UNCHANGED <<repResult, repPath, repFiles, repRenders>>
  /\ UNCHANGED <<engineVars, awsVars, aggVars, rulesVars, costVars, cliVars,
               scansVars>>

NextReport ==
  \/ GenerateReport
  \/ GenerateReportJSON
  \/ GenerateReportHTML
  \/ GenerateReportCSV
  \/ GenerateReportSARIF
  \/ GenerateReportJUnit
  \/ GenerateReportUnsupported

SpecReport == InitReport /\ [][NextReport]_vars

\* ---------------------------------------------------------------------
\* OptimiselySDK.getCostAnalysis over the AWS connector

\* most resources of one type in the account
MaxCostResources == 1

\* the services of scanResources, in the order it calls them, and the type
\* of the resources each returns
ResourceKinds == <<"compute", "storage", "database", "network", "serverless">>

\* the n resources of a type that its service returns (m5.large instances,
\* db.t3.micro databases)
KindResources(kind, n) ==
  [k \in 1..n |-> [id |-> <<kind, ToString(k)>>, type |-> kind,
                   provider |-> "aws"]]

\* costs: 0.096 an hour for an m5.large (in tenths of a cent), and by the
\* month, in cents, 23 for a bucket, 16 for a db.t3.micro, 5 for a
\* function; network resources are not costed
InstanceHourlyCost == 96
BucketMonthlyCost == 2300
DatabaseMonthlyCost == 1600
FunctionMonthlyCost == 500

\* monthly cost of one resource of the type, in cents
MonthlyCost(kind) ==
  CASE kind = "compute" -> (InstanceHourlyCost * 24 * 30) \div 10
    [] kind = "storage" -> BucketMonthlyCost
    [] kind = "database" -> DatabaseMonthlyCost
    [] kind = "serverless" -> FunctionMonthlyCost
    [] OTHER -> 0

CostedKinds == {"compute", "storage", "database", "serverless"}

\* calculateEstimatedCosts: a breakdown entry for every costed type that
\* has a resource
calculateEstimatedCosts(res) ==
  LET costed == {kind \in CostedKinds : res[kind] # <<>>}
      breakdown == [kind \in costed |-> Len(res[kind]) * MonthlyCost(kind)]
      RECURSIVE Total(_)
      Total(kinds) ==
        IF kinds = {} THEN 0
        ELSE LET kind == CHOOSE k \in kinds : TRUE
             IN  breakdown[kind] + Total(kinds \ {kind})
  IN  [total |-> Total(costed), currency |-> "USD", breakdown |-> breakdown]

\* the resourceTypes a caller passes
ResourceTypesOptions ==
  {Undefined, Given(<<>>), Given(<<"compute">>), Given(<<"storage">>),
   Given(<<"compute", "storage">>), Given(<<"database", "serverless">>)}

NoKindResources == [kind \in Range(ResourceKinds) |-> <<>>]

InitCost ==
  /\ EngineIdle
  /\ AwsIdle
  /\ AggIdle
  /\ RulesIdle
  /\ ReportIdle
  /\ CliIdle
  /\ ScansIdle
  /\ costPc = "called"
  /\ costConfigValid \in BOOLEAN
  /\ costResourceTypes \in ResourceTypesOptions
  /\ costAccount \in [Range(ResourceKinds) -> 0..MaxCostResources]
  /\ costOptions = <<>>
  /\ costStep = 0
  /\ costFails \in 0..Len(ResourceKinds)
  /\ costScanned = {}
  /\ costResources = <<>>
  /\ costResult = <<>>
  /\ costError = ""

\* getCostAnalysis builds the scan options; scanCloud validates the config,
\* creates the connector and calls scanResources
GetCostAnalysis ==
  /\ costPc = "called"
  /\ costOptions' = [includeCostAnalysis |-> TRUE,
                     includeTypes |-> costResourceTypes,
                     excludeTypes |-> Undefined]
  /\ IF costConfigValid
     THEN /\ costPc' = "scanning"
          /\ costStep' = 1
          /\ costResources' = NoKindResources
          /\ UNCHANGED costError
     ELSE /\ costPc' = "threw"
          /\ costError' = "Credentials are required"
          /\ UNCHANGED <<costStep, costResources>>
  /\ UNCHANGED <<costConfigValid, costResourceTypes, costAccount, costFails,
                 costScanned, costResult>>
  /\ UNCHANGED <<engineVars, awsVars, aggVars, rulesVars, reportVars, cliVars,
               scansVars>>

\* options.excludeTypes?.includes(kind)
SkipsKind(opts, kind) ==
  opts.excludeTypes.given /\ Includes(opts.excludeTypes.val, kind)

\* scanResources, one service: skipped when its type is excluded, else the
\* service is called and its resources kept
ScanKind ==
  /\ costPc = "scanning"
  /\ costStep \in 1..Len(ResourceKinds)
  /\ LET kind == ResourceKinds[costStep]
     IN  IF SkipsKind(costOptions, kind)
         THEN UNCHANGED <<costScanned, costResources>>
         ELSE /\ costFails # costStep
              /\ costScanned' = costScanned \cup {kind}
              /\ costResources' =
                   [costResources EXCEPT
                      ![kind] = KindResources(kind, costAccount[kind])]
  /\ costStep' = costStep + 1
  /\ UNCHANGED <<costPc, costConfigValid, costResourceTypes, costAccount,
                 costOptions, costFails, costResult, costError>>
  /\ UNCHANGED <<engineVars, awsVars, aggVars, rulesVars, reportVars, cliVars,
               scansVars>>

\* the service call fails: scanResources and scanCloud wrap and rethrow
ScanKindFails ==
  /\ costPc = "scanning"
  /\ costStep \in 1..Len(ResourceKinds)
  /\ ~SkipsKind(costOptions, ResourceKinds[costStep])
  /\ costFails = costStep
  /\ costScanned' = costScanned \cup {ResourceKinds[costStep]}
  /\ costPc' = "threw"
  /\ costError' = "Failed to scan aws resources: AWS scan failed"
  /\ UNCHANGED <<costConfigValid, costResourceTypes, costAccount,
                 costOptions, costStep, costFails, costResources, costResult>>
  /\ UNCHANGED <<engineVars, awsVars, aggVars, rulesVars, reportVars, cliVars,
               scansVars>>

\* scanResources returns, and getCostAnalysis lays out the analysis
CostReturn ==
  /\ costPc = "scanning"
  /\ costStep = Len(ResourceKinds) + 1
  /\ LET estimatedMonthlyCost == calculateEstimatedCosts(costResources)
     IN  costResult' =
           [total |-> estimatedMonthlyCost.total,
            currency |-> estimatedMonthlyCost.currency,
            breakdown |-> estimatedMonthlyCost.breakdown,
            resources |-> costResources["compute"]
                            \o costResources["storage"]
                            \o costResources["database"]
                            \o costResources["network"]
                            \o costResources["serverless"]]
  /\ costPc' = "returned"
  /\ UNCHANGED <<costConfigValid, costResourceTypes, costAccount,
                 costOptions, costStep, costFails, costScanned,
                 costResources, costError>>
  /\ UNCHANGED <<engineVars, awsVars, aggVars, rulesVars, reportVars, cliVars,
               scansVars>>

NextCost ==
  \/ GetCostAnalysis
  \/ ScanKind
  \/ ScanKindFails
  \/ CostReturn

SpecCost == InitCost /\ [][NextCost]_vars

\* ---------------------------------------------------------------------
\* the optimisely command line program

\* the commands the program defines
ProgramCommands ==
  {"scan", "configure", "providers", "cost", "optimize", "terraform"}

\* what a user types: a defined command, or the documented security scan
CommandLines == ProgramCommands \cup {"security"}

InitCli ==
  /\ EngineIdle
  /\ AwsIdle
  /\ AggIdle
  /\ RulesIdle
  /\ ReportIdle
  /\ CostIdle
  /\ ScansIdle
  /\ cliPc = "started"
  /\ cliCommand \in CommandLines
  /\ cliFindings \in ReportResults
  /\ cliHandlerFails \in BOOLEAN
  /\ cliExit = -1

\* program.parse() runs the action of the command
ProgramParse ==
  /\ cliPc = "started"
  /\ cliCommand \in ProgramCommands
  /\ cliPc' = "running"
  /\ UNCHANGED <<cliCommand, cliFindings, cliHandlerFails, cliExit>>
  /\ UNCHANGED <<engineVars, awsVars, aggVars, rulesVars, reportVars, costVars,
               scansVars>>

\* program.parse() finds no such command: the library reports the unknown
\* command and exits with 1, or, in its older versions, does nothing
ProgramParseUnknown ==
  /\ cliPc = "started"
  /\ cliCommand \notin ProgramCommands
  /\ cliPc' = "exited"
  /\ cliExit' \in {0, 1}
  /\ UNCHANGED <<cliCommand, cliFindings, cliHandlerFails>>
  /\ UNCHANGED <<engineVars, awsVars, aggVars, rulesVars, reportVars, costVars,
               scansVars>>

\* the handler returns and the process ends
ActionReturns ==
  /\ cliPc = "running"
  /\ cliCommand = "providers" \/ ~cliHandlerFails
  /\ cliPc' = "exited"
  /\ cliExit' = 0
  /\ UNCHANGED <<cliCommand, cliFindings, cliHandlerFails>>
  /\ UNCHANGED <<engineVars, awsVars, aggVars, rulesVars, reportVars, costVars,
               scansVars>>

\* catch (error) { ...; process.exit(1) }
ActionFails ==
  /\ cliPc = "running"
  /\ cliCommand # "providers"
  /\ cliHandlerFails
  /\ cliPc' = "exited"
  /\ cliExit' = 1
  /\ UNCHANGED <<cliCommand, cliFindings, cliHandlerFails>>
  /\ UNCHANGED <<engineVars, awsVars, aggVars, rulesVars, reportVars, costVars,
               scansVars>>

NextCli ==
  \/ ProgramParse
  \/ ProgramParseUnknown
  \/ ActionReturns
  \/ ActionFails

SpecCli == InitCli /\ [][NextCli]_vars

\* ---------------------------------------------------------------------
\* Two scan() calls in flight on one SecurityScanner: each await (discovery,
\* every rule.check) is a point where the other call can run

\* longest resource list a discovery of these scans returns
MaxScansResources == 2

Calls == {1, 2}

ScansPool == SubSeq(AggPool, 1, 3)

ScansOptions ==
  [provider : {"aws", "azure"}, regions : {Undefined},
   severity : {Undefined, Given(<<"critical">>)}, categories : {Undefined}]

ScansConfigs == {NoRulesConfig, RulesConfig(<<>>, DenyList)}

\* what scanner.discoverResources can return to a call
ScansDiscoverable(opts) ==
  IF opts.provider = "aws" THEN SubSeqs(ScansPool, MaxScansResources)
  ELSE {AzureMockResources(opts.regions)}

InitScans ==
  /\ EngineIdle
  /\ AwsIdle
  /\ AggIdle
  /\ RulesIdle
  /\ ReportIdle
  /\ CostIdle
  /\ CliIdle
  /\ scansRules = initializeRules
  /\ scansConfig \in ScansConfigs
  /\ scansPc = [c \in Calls |-> "idle"]
  /\ scansOptions \in [Calls -> ScansOptions]
  /\ scansDiscovered = [c \in Calls |-> <<>>]
  /\ scansResources = [c \in Calls |-> <<>>]
  /\ scansEnabled = [c \in Calls |-> <<>>]
  /\ scansOutcomes = [c \in Calls |-> <<>>]
  /\ scansVulns = [c \in Calls |-> <<>>]
  /\ scansResult = [c \in Calls |-> NoResult]

\* scan(options, credentials) is called: scanner and context, then it
\* awaits discovery
ScansScan(c) ==
  /\ scansPc[c] = "idle"
  /\ scansPc' = [scansPc EXCEPT ![c] = "discovering"]
  /\ UNCHANGED <<scansRules, scansConfig, scansOptions, scansDiscovered,
                 scansResources, scansEnabled, scansOutcomes, scansVulns,
                 scansResult>>
  /\ UNCHANGED <<engineVars, awsVars, aggVars, rulesVars, reportVars,
                 costVars, cliVars>>

\* discovery returns: resources, getEnabledRules, vulnerabilities = []
ScansDiscover(c) ==
  /\ scansPc[c] = "discovering"
  /\ \E list \in ScansDiscoverable(scansOptions[c]) :
       /\ scansDiscovered' = [scansDiscovered EXCEPT ![c] = list]
       /\ scansResources' = [scansResources EXCEPT ![c] = list]
  /\ scansEnabled' =
       [scansEnabled EXCEPT
          ![c] = GetEnabledRules(scansRules, scansConfig,
                                 scansOptions[c].provider,
                                 scansOptions[c].severity,
                                 scansOptions[c].categories)]
  /\ scansVulns' = [scansVulns EXCEPT ![c] = <<>>]
  /\ scansPc' = [scansPc EXCEPT ![c] = "evaluating"]
  /\ UNCHANGED <<scansRules, scansConfig, scansOptions, scansOutcomes,
                 scansResult>>
  /\ UNCHANGED <<engineVars, awsVars, aggVars, rulesVars, reportVars,
                 costVars, cliVars>>

\* discovery throws: the call logs and rethrows
ScansDiscoverFails(c) ==
  /\ scansPc[c] = "discovering"
  /\ scansPc' = [scansPc EXCEPT ![c] = "failed"]
  /\ UNCHANGED <<scansRules, scansConfig, scansOptions, scansDiscovered,
                 scansResources, scansEnabled, scansOutcomes, scansVulns,
                 scansResult>>
  /\ UNCHANGED <<engineVars, awsVars, aggVars, rulesVars, reportVars,
                 costVars, cliVars>>

\* variant: the vulnerabilities are collected in a field of the instance,
\* which every call in flight pushes onto
ScansCheckShared(c) ==
  /\ scansPc[c] = "evaluating"
  /\ Len(scansOutcomes[c]) < Len(Pairs(scansResources[c], scansEnabled[c]))
  /\ LET pair == Pairs(scansResources[c],
                       scansEnabled[c])[Len(scansOutcomes[c]) + 1]
         resource == scansResources[c][pair.res]
     IN  \E outcome \in CheckOutcomes(pair.rule, resource,
                                      scansOptions[c].provider) :
           /\ scansOutcomes' =
                [scansOutcomes EXCEPT ![c] = Append(@, outcome)]
           /\ scansVulns' =
                IF ProducesVulnerability(outcome)
                THEN [d \in Calls |->
                        Append(scansVulns[d],
                               Vulnerability(pair.rule, resource,
                                             scansOptions[c].provider))]
                ELSE scansVulns
  /\ UNCHANGED <<scansRules, scansConfig, scansPc, scansOptions,
                 scansDiscovered, scansResources, scansEnabled, scansResult>>
  /\ UNCHANGED <<engineVars, awsVars, aggVars, rulesVars, reportVars,
                 costVars, cliVars>>

\* one awaited rule.check of the call returns or throws
ScansCheck(c) ==
  /\ scansPc[c] = "evaluating"
  /\ Len(scansOutcomes[c]) < Len(Pairs(scansResources[c], scansEnabled[c]))
  /\ LET pair == Pairs(scansResources[c],
                       scansEnabled[c])[Len(scansOutcomes[c]) + 1]
         resource == scansResources[c][pair.res]
     IN  \E outcome \in CheckOutcomes(pair.rule, resource,
                                      scansOptions[c].provider) :
           /\ scansOutcomes' =
                [scansOutcomes EXCEPT ![c] = Append(@, outcome)]
           /\ scansVulns' =
                IF ProducesVulnerability(outcome)
                THEN [scansVulns EXCEPT
                        ![c] = Append(@, Vulnerability(
                                            pair.rule, resource,
                                            scansOptions[c].provider))]
                ELSE scansVulns
  /\ UNCHANGED <<scansRules, scansConfig, scansPc, scansOptions,
                 scansDiscovered, scansResources, scansEnabled, scansResult>>
  /\ UNCHANGED <<engineVars, awsVars, aggVars, rulesVars, reportVars,
                 costVars, cliVars>>

\* the loops of the call are over: aggregation and return
ScansReturn(c) ==
  /\ scansPc[c] = "evaluating"
  /\ Len(scansOutcomes[c]) = Len(Pairs(scansResources[c], scansEnabled[c]))
  /\ LET res == ScanResult(scansOptions[c].provider, scansVulns[c],
                           Len(scansResources[c]))
     IN  /\ scansVulns' = [scansVulns EXCEPT ![c] = res.vulnerabilities]
         /\ scansResult' =
              [scansResult EXCEPT ![c] = [res EXCEPT !.returned = TRUE]]
  /\ scansPc' = [scansPc EXCEPT ![c] = "done"]
  /\ UNCHANGED <<scansRules, scansConfig, scansOptions, scansDiscovered,
                 scansResources, scansEnabled, scansOutcomes>>
  /\ UNCHANGED <<engineVars, awsVars, aggVars, rulesVars, reportVars,
                 costVars, cliVars>>

NextScans ==
  \E c \in Calls :
    \/ ScansScan(c)
    \/ ScansDiscover(c)
    \/ ScansDiscoverFails(c)
    \/ ScansCheck(c)
    \/ ScansReturn(c)

SpecScans == InitScans /\ [][NextScans]_vars


(***************************************************************************)
(* Properties of the scan engine.                                          *)
(***************************************************************************)
CountIn(s, x) == Cardinality({n \in 1..Len(s) : s[n] = x})

\* the rule.check invocations that returned passed == false
FailIdx == {n \in 1..Len(checks) : checks[n].outcome = "fail"}

\* the vulnerability the n-th check stands for
Expected(n) ==
  Vulnerability(checks[n].rule, resources[checks[n].res], options.provider)

\* the failing checks, in the order in which they were made
FailSeq == Filter(checks, [c \in Range(checks) |-> c.outcome = "fail"])

EvaluationOrder ==
  [n \in 1..Len(FailSeq) |->
     Vulnerability(FailSeq[n].rule, resources[FailSeq[n].res], options.provider)]

NonEmpty(opt) == opt.given /\ Len(opt.val) > 0

\* rule selection, stated on one rule: an option or list that is absent or
\* empty does not restrict
Selected(r) ==
  /\ r.enabled
  /\ r.provider = options.provider \/ r.provider = "*"
  /\ NonEmpty(options.severity) => r.severity \in Range(options.severity.val)
  /\ NonEmpty(options.categories) => r.category \in Range(options.categories.val)
  /\ (config.hasRules /\ config.enabled # <<>>) => r.id \in Range(config.enabled)
  /\ (config.hasRules /\ config.disabled # <<>>) => r.id \notin Range(config.disabled)

\* the same, but an option that is given restricts even when it is empty
SelectedIfGiven(r) ==
  /\ r.enabled
  /\ r.provider = options.provider \/ r.provider = "*"
  /\ options.severity.given => r.severity \in Range(options.severity.val)
  /\ options.categories.given => r.category \in Range(options.categories.val)
  /\ (config.hasRules /\ config.enabled # <<>>) => r.id \in Range(config.enabled)
  /\ (config.hasRules /\ config.disabled # <<>>) => r.id \notin Range(config.disabled)

RulesSelected == pc \in {"evaluating", "aggregating", "done"}

\* C1: a throwing rule.check never makes the scan fail, and the result that
\* is returned holds every vulnerability of the checks that returned
\* passed == false, however many checks threw.
C1_FindingsSurviveThrows ==
  /\ pc = "failed" => checks = <<>>
  /\ pc = "done" =>
       /\ result.returned
       /\ \A n \in FailIdx :
            CountIn(result.vulnerabilities, Expected(n))
              >= Cardinality({m \in FailIdx : Expected(m) = Expected(n)})

\* a scan returned although checks threw, with a finding of another rule on
\* the resource of a throwing check and a finding on another resource
C1_Witness ==
  /\ pc = "done"
  /\ result.returned
  /\ \E t, a, b \in 1..Len(checks) :
       /\ checks[t].outcome = "throw"
       /\ checks[a].outcome = "fail" /\ checks[a].res = checks[t].res
       /\ checks[b].outcome = "fail" /\ checks[b].res # checks[t].res
       /\ Expected(a) \in Range(result.vulnerabilities)
       /\ Expected(b) \in Range(result.vulnerabilities)

\* C2: in a returned result every vulnerability id is rule.id + "_" +
\* resource.id of a pair whose check failed, and no two vulnerabilities of
\* the list share an id.
C2_UniqueIds ==
  pc = "done" =>
    /\ \A a \in 1..Len(result.vulnerabilities) :
         \E n \in FailIdx :
           result.vulnerabilities[a].id =
             checks[n].rule.id \o <<"_">> \o resources[checks[n].res].id
    /\ \A a, b \in 1..Len(result.vulnerabilities) :
         a # b => result.vulnerabilities[a].id # result.vulnerabilities[b].id

C4_SelectionIfGiven ==
  RulesSelected =>
    Range(enabledRules) = {r \in Range(catalog) : SelectedIfGiven(r)}

\* C4 amended: options.severity and options.categories restrict only when
\* they are given and non-empty; selection keeps catalog order and selects
\* no rule twice.
C4_Selection ==
  RulesSelected =>
    /\ Range(enabledRules) = {r \in Range(catalog) : Selected(r)}
    /\ Len(enabledRules) = Cardinality(Range(enabledRules))

\* rules were selected under a severity filter and both config lists, and a
\* rule named in both lists was left out
C4_Witness ==
  /\ RulesSelected
  /\ NonEmpty(options.severity)
  /\ config.hasRules /\ config.enabled # <<>> /\ config.disabled # <<>>
  /\ enabledRules # <<>>
  /\ \E r \in Range(catalog) :
       /\ r.enabled /\ r.provider = options.provider
       /\ r.severity \in Range(options.severity.val)
       /\ r.id \in Range(config.enabled) /\ r.id \in Range(config.disabled)
       /\ r \notin Range(enabledRules)

ShouldCheck ==
  {p \in (1..Len(resources)) \X Range(catalog) :
     /\ Selected(p[2])
     /\ \/ resources[p[1]].type \in Range(p[2].resourceTypes)
        \/ "*" \in Range(p[2].resourceTypes)}

Invoked == {<<checks[n].res, checks[n].rule>> : n \in 1..Len(checks)}

\* C6: rule.check is invoked only for pairs of a selected rule and a
\* resource whose type the rule lists (or '*'), no pair twice, and once the
\* loops are over for every such pair.
C6_ChecksExactlyApplicablePairs ==
  /\ Invoked \subseteq ShouldCheck
  /\ Cardinality(Invoked) = Len(checks)
  /\ pc \in {"aggregating", "done"} => Invoked = ShouldCheck

\* a scan is over in which some rule of the provider was checked and some
\* selected rule was not checked on a resource of another type
C6_Witness ==
  /\ pc = "done"
  /\ checks # <<>>
  /\ \E r \in Range(enabledRules), n \in 1..Len(resources) :
       <<n, r>> \notin Invoked
  /\ \E r \in Range(catalog) : r.enabled /\ r \notin Range(enabledRules)

\* C7: the vulnerability list of a returned result is in evaluation order.
C7_EvaluationOrder ==
  pc = "done" => result.vulnerabilities = EvaluationOrder

\* C8: with a provider outside {aws, azure, gcp} no collaborator is created,
\* discovery is not called, no check runs and no result is returned; the
\* scan fails with the unsupported-provider error.
C8_UnsupportedProvider ==
  options.provider \notin {"aws", "azure", "gcp"} =>
    /\ scannerCreated = {}
    /\ discoverCalls = 0
    /\ checks = <<>>
    /\ result = NoResult
    /\ pc \in {"idle", "resolving", "failed"}
    /\ pc = "failed" => error = "Unsupported provider"

C8_Witness ==
  /\ pc = "failed"
  /\ options.provider = "oracle"
  /\ error = "Unsupported provider"

\* C9: once discoverResources has been called and has rejected, the scan
\* has failed with that error: no result, no rule check.
C9_DiscoveryFailureIsFatal ==
  (discoverCalls > 0
   /\ Discoverable(options.provider, credentials, options.regions) = {}) =>
    /\ pc = "failed"
    /\ error = "discovery failed"
    /\ result = NoResult
    /\ checks = <<>>
    /\ enabledRules = <<>>

C9_Witness ==
  /\ pc = "failed"
  /\ discoverCalls = 1
  /\ error = "discovery failed"
  /\ scannerCreated = {"aws"}

(***************************************************************************)
(* Properties of AWSSecurityScanner.discoverResources.                     *)
(***************************************************************************)
\* C10 as stated: discoverResources never returns a list after one of its
\* per-service discovery calls has failed.
C10_NoPartialList ==
  awsFailed # <<>> => ~awsReturned.returned

\* C10 amended: a failed per-service call is caught and never makes
\* discoverResources exit via error (it exits via error only when the
\* credentials cannot be read, before anything was collected); when the
\* loop ends the list collected from the calls that succeeded is returned.
C10_PartialListReturned ==
  /\ awsPc = "threw" =>
       /\ awsFailed = <<>>
       /\ awsCredentials = "undefined"
       /\ awsResources = <<>>
       /\ ~awsReturned.returned
  /\ awsPc = "returned" =>
       /\ awsReturned.returned
       /\ awsReturned.list = awsResources
  /\ awsRegion > Len(awsRegions) => awsPc # "threw"

\* a call failed in the first region, resources were collected in both
\* regions, and the list was returned
C10_Witness ==
  /\ awsPc = "returned"
  /\ Len(awsRegions) = 2
  /\ \E n \in 1..Len(awsFailed) : awsFailed[n][2] = awsRegions[1]
  /\ \E n \in 1..Len(awsReturned.list) :
       awsReturned.list[n].region = awsRegions[1]
  /\ \E n \in 1..Len(awsReturned.list) :
       awsReturned.list[n].region = awsRegions[2]

(***************************************************************************)
(* Properties of the aggregation.                                          *)
(***************************************************************************)
\* number of elements of s that satisfy keep
CountWhere(s, keep) == Cardinality({n \in 1..Len(s) : keep[s[n]]})

CountSeverity(s, sev) ==
  Cardinality({n \in 1..Len(s) : s[n].severity = sev})

\* the weighted sum W of a vulnerability list
Weight(s) ==
  10 * CountSeverity(s, "critical") + 7 * CountSeverity(s, "high")
    + 4 * CountSeverity(s, "medium") + 1 * CountSeverity(s, "low")

\* a / b rounded to the nearest integer, halves up, in exact arithmetic
RoundHalfUp(a, b) == (2 * a + b) \div (2 * b)

RECURSIVE SumOver(_, _)
SumOver(f, keys) ==
  IF keys = {} THEN 0
  ELSE LET k == CHOOSE x \in keys : TRUE
       IN  f[k] + SumOver(f, keys \ {k})

\* C11: the risk score of a result is min(100, round(W / (totalResources *
\* 10) * 100)) with W the weighted sum of its vulnerabilities (critical 10,
\* high 7, medium 4, low 1), is 0 when there is no vulnerability, and is an
\* integer in 0..100.
C11_RiskScore ==
  aggPc = "done" =>
    /\ aggResult.summary.riskScore \in 0..100
    /\ aggResult.summary.riskScore =
         IF aggDiscovered = <<>> THEN 0
         ELSE Min(100, RoundHalfUp(Weight(aggDiscovered) * 100,
                                   Len(aggResources) * 10))

\* C12: the posture is a function of the risk score alone, with the bands
\* >= 80 critical, 60..79 poor, 40..59 fair, 20..39 good, below 20
\* excellent; one critical vulnerability on the only resource gives risk
\* score 100 and posture critical.
C12_PostureBands ==
  aggPc = "done" =>
    LET score == aggResult.summary.riskScore
        posture == aggResult.summary.securityPosture
    IN  /\ posture = "critical" <=> score >= 80
        /\ posture = "poor" <=> score \in 60..79
        /\ posture = "fair" <=> score \in 40..59
        /\ posture = "good" <=> score \in 20..39
        /\ posture = "excellent" <=> score < 20
        /\ (Len(aggResources) = 1 /\ Len(aggDiscovered) = 1
            /\ aggDiscovered[1].severity = "critical")
             => score = 100 /\ posture = "critical"

\* one critical finding on the only resource of the account
C12_Witness ==
  /\ aggPc = "done"
  /\ Len(aggResources) = 1
  /\ Len(aggDiscovered) = 1
  /\ aggDiscovered[1].severity = "critical"
  /\ aggResult.summary.riskScore = 100

\* place of the vulnerability pushed n-th in the stable descending order:
\* after every more severe one and after the equally severe ones pushed
\* before it
Rank(s, n) ==
  Cardinality({m \in 1..Len(s) :
                 severityOrder(s[m].severity) > severityOrder(s[n].severity)})
  + Cardinality({m \in 1..n :
                   severityOrder(s[m].severity) = severityOrder(s[n].severity)})

\* C13: topVulnerabilities is the first min(10, n) vulnerabilities in
\* descending severity order, equally severe ones in discovery order; it
\* never has more than 10 elements.
C13_TopVulnerabilities ==
  aggPc = "done" =>
    LET top == aggResult.summary.topVulnerabilities
    IN  /\ Len(top) = Min(10, Len(aggDiscovered))
        /\ Len(top) <= 10
        /\ \A n \in 1..Len(aggDiscovered) :
             Rank(aggDiscovered, n) <= 10
               => top[Rank(aggDiscovered, n)] = aggDiscovered[n]

\* more than ten findings, pushed in an order that is not the severity
\* order, of which equally severe ones are among the first ten
C13_Witness ==
  /\ aggPc = "done"
  /\ Len(aggDiscovered) > 10
  /\ Len(aggResult.summary.topVulnerabilities) = 10
  /\ aggResult.vulnerabilities # aggDiscovered
  /\ \E a, b \in 1..10 :
       /\ a < b
       /\ aggResult.summary.topVulnerabilities[a].severity
            = aggResult.summary.topVulnerabilities[b].severity

\* C14: quickWins holds only vulnerabilities with a non-empty
\* remediation.automated, has min(5, number of such vulnerabilities)
\* elements, and is the prefix of those vulnerabilities in the order of the
\* result's vulnerability list.
C14_QuickWins ==
  aggPc = "done" =>
    LET wins == aggResult.summary.quickWins
        list == aggResult.vulnerabilities
        idx == {n \in 1..Len(list) : list[n].automated # <<>>}
    IN  /\ \A n \in 1..Len(wins) : wins[n].automated # <<>>
        /\ Len(wins) = Min(5, Cardinality(idx))
        /\ \A n \in idx :
             Cardinality({m \in idx : m <= n}) <= 5
               => wins[Cardinality({m \in idx : m <= n})] = list[n]

\* more than five findings can be remediated automatically, others cannot
C14_Witness ==
  /\ aggPc = "done"
  /\ Len(aggResult.summary.quickWins) = 5
  /\ Cardinality({n \in 1..Len(aggResult.vulnerabilities) :
                    aggResult.vulnerabilities[n].automated # <<>>}) > 5
  /\ \E n \in 1..Len(aggResult.vulnerabilities) :
       aggResult.vulnerabilities[n].automated = <<>>

\* C15: in every result resources.scanned is totalResources,
\* resources.vulnerable is the number of distinct resource ids in the
\* vulnerability list, nonCompliant equals vulnerable, compliant is scanned
\* minus vulnerable, and 0 <= vulnerable <= scanned.
C15_ResourceCounts ==
  pc \in {"aggregating", "done"} =>
    LET ids == {result.vulnerabilities[n].resourceId :
                  n \in 1..Len(result.vulnerabilities)}
    IN  /\ result.resources.scanned = result.totalResources
        /\ result.resources.scanned = Len(resources)
        /\ result.resources.vulnerable = Cardinality(ids)
        /\ result.resources.nonCompliant = result.resources.vulnerable
        /\ result.resources.compliant
             = result.resources.scanned - result.resources.vulnerable
        /\ 0 <= result.resources.vulnerable
        /\ result.resources.vulnerable <= result.resources.scanned
        /\ result.resources.compliant >= 0

\* a returned result with several findings on one resource and a resource
\* without findings
C15_Witness ==
  /\ pc = "done"
  /\ result.resources.vulnerable < result.totalVulnerabilities
  /\ result.resources.vulnerable > 0
  /\ result.resources.compliant > 0

\* number of references to the framework name in the vulnerabilities of s
RECURSIVE References(_, _)
References(s, name) ==
  IF s = <<>> THEN 0
  ELSE Cardinality({n \in 1..Len(s[1].complianceFrameworks) :
                      s[1].complianceFrameworks[n].name = name})
       + References(Tail(s), name)

FrameworkNames ==
  {"CIS AWS Foundations", "CIS Azure Foundations", "CIS GCP Foundations",
   "SOC 2", "PCI DSS"}

\* C16: complianceStatus has an entry for a framework name exactly when a
\* vulnerability references it; totalChecks and failedChecks of the entry
\* are the number of references, passedChecks and score are 0.
C16_ComplianceStatus ==
  aggPc = "done" =>
    /\ DOMAIN aggResult.complianceStatus
         = {name \in FrameworkNames : References(aggDiscovered, name) > 0}
    /\ \A name \in DOMAIN aggResult.complianceStatus :
         /\ aggResult.complianceStatus[name].totalChecks
              = References(aggDiscovered, name)
         /\ aggResult.complianceStatus[name].failedChecks
              = References(aggDiscovered, name)
         /\ aggResult.complianceStatus[name].passedChecks = 0
         /\ aggResult.complianceStatus[name].score = 0

\* a framework referenced by several findings, one referenced twice by one
\* finding, one referenced by none
C16_Witness ==
  /\ aggPc = "done"
  /\ "CIS AWS Foundations" \in DOMAIN aggResult.complianceStatus
  /\ aggResult.complianceStatus["CIS AWS Foundations"].totalChecks > 1
  /\ "SOC 2" \in DOMAIN aggResult.complianceStatus
  /\ aggResult.complianceStatus["SOC 2"].totalChecks = 2
  /\ "PCI DSS" \notin DOMAIN aggResult.complianceStatus

\* C17: severityBreakdown has exactly the keys critical, high, medium and
\* low; categoryBreakdown has a key only for a category that occurs, with
\* its count; both sum to totalVulnerabilities, the length of the
\* vulnerability list; criticalFindings has severityBreakdown.critical
\* elements, all critical.
C17_Breakdowns ==
  aggPc = "done" =>
    LET list == aggResult.vulnerabilities
        sev == aggResult.severityBreakdown
        cat == aggResult.categoryBreakdown
        crit == aggResult.summary.criticalFindings
    IN  /\ DOMAIN sev = {"critical", "high", "medium", "low"}
        /\ \A k \in DOMAIN sev : sev[k] = CountSeverity(aggDiscovered, k)
        /\ DOMAIN cat = {list[n].category : n \in 1..Len(list)}
        /\ \A k \in DOMAIN cat :
             /\ cat[k] >= 1
             /\ cat[k] = Cardinality({n \in 1..Len(list) :
                                        list[n].category = k})
        /\ SumOver(sev, DOMAIN sev) = Len(list)
        /\ SumOver(cat, DOMAIN cat) = Len(list)
        /\ aggResult.totalVulnerabilities = Len(list)
        /\ Len(list) = Len(aggDiscovered)
        /\ Len(crit) = sev.critical
        /\ \A n \in 1..Len(crit) : crit[n].severity = "critical"

\* findings of three severities and none of the fourth, in several
\* categories
C17_Witness ==
  /\ aggPc = "done"
  /\ aggResult.severityBreakdown.critical > 1
  /\ aggResult.severityBreakdown.high > 0
  /\ aggResult.severityBreakdown.low > 0
  /\ aggResult.severityBreakdown.medium = 0
  /\ Cardinality(DOMAIN aggResult.categoryBreakdown) > 1

(***************************************************************************)
(* Properties of the rule catalog.                                         *)
(***************************************************************************)
\* C18: after any sequence of getAllRules calls by any callers, every call
\* returned the same catalog instance with the same rule ids and count, the
\* catalog was built at most once, and it holds each rule id exactly once.
C18_OneCatalog ==
  /\ rulesBuilt <= 1
  /\ \A a, b \in 1..Len(rulesCalls) :
       /\ rulesCalls[a].instance = rulesCalls[b].instance
       /\ rulesCalls[a].ids = rulesCalls[b].ids
       /\ Len(rulesCalls[a].ids) = Len(rulesCalls[b].ids)
  /\ \A a \in 1..Len(rulesCalls) :
       /\ rulesCalls[a].instance = rulesStatic.instance
       /\ rulesCalls[a].ids # <<>>
       /\ \A m, n \in 1..Len(rulesCalls[a].ids) :
            m # n => rulesCalls[a].ids[m] # rulesCalls[a].ids[n]

\* three calls by at least two callers
C18_Witness ==
  /\ Len(rulesCalls) >= 3
  /\ rulesCalls[1].caller # rulesCalls[2].caller
  /\ rulesBuilt = 1
  /\ Len(rulesCalls[3].ids) = 9

(***************************************************************************)
(* Properties of the reports.                                              *)
(***************************************************************************)
\* Standard CSV reading of one line.  A field that starts with a quote runs
\* to the next quote that is not doubled, a doubled quote is one quote, and
\* the closing quote is followed by a comma or by the end of the line.
\* A field read from position i: its value and the position after it.
RECURSIVE QuotedFrom(_, _, _)
QuotedFrom(line, i, field) ==
  IF i > Len(line) THEN [ok |-> FALSE, field |-> field, next |-> i]
  ELSE IF line[i] # Quote
       THEN QuotedFrom(line, i + 1, Append(field, line[i]))
  ELSE IF i < Len(line) /\ line[i + 1] = Quote
       THEN QuotedFrom(line, i + 2, Append(field, Quote))
  ELSE IF i = Len(line)
       THEN [ok |-> TRUE, field |-> field, next |-> Len(line) + 2]
  ELSE [ok |-> line[i + 1] = Comma, field |-> field, next |-> i + 2]

RECURSIVE BareFrom(_, _, _)
BareFrom(line, i, field) ==
  IF i > Len(line)
  THEN [ok |-> TRUE, field |-> field, next |-> Len(line) + 2]
  ELSE IF line[i] = Comma
       THEN [ok |-> TRUE, field |-> field, next |-> i + 1]
  ELSE IF line[i] = Quote
       THEN [ok |-> FALSE, field |-> field, next |-> i]
  ELSE BareFrom(line, i + 1, Append(field, line[i]))

ParseField(line, i) ==
  IF i <= Len(line) /\ line[i] = Quote
  THEN QuotedFrom(line, i + 1, <<>>)
  ELSE BareFrom(line, i, <<>>)

RECURSIVE ParseFields(_, _, _)
ParseFields(line, i, fields) ==
  IF ~ParseField(line, i).ok THEN [ok |-> FALSE, fields |-> fields]
  ELSE IF ParseField(line, i).next > Len(line) + 1
       THEN [ok |-> TRUE,
             fields |-> Append(fields, ParseField(line, i).field)]
  ELSE ParseFields(line, ParseField(line, i).next,
                   Append(fields, ParseField(line, i).field))

ParseCsvLine(line) == ParseFields(line, 1, <<>>)

\* the 13 values a row stands for
FieldValues(vuln) ==
  << vuln.id, vuln.title, Text(vuln.severity), Text(vuln.category),
     vuln.resourceId, Text(vuln.resourceType), Text(vuln.resourceName),
     Text(vuln.region), Text(vuln.provider), vuln.description,
     vuln.recommendation, Text(vuln.status),
     toISOString(vuln.firstDetected) >>

CsvReturned == repPc = "returned" /\ toLowerCase(repFormat) = "csv"

\* C19: every field of every row of the CSV report is quoted with embedded
\* quotes doubled, so reading a row with standard CSV unescaping gives back
\* the 13 values id, title, severity, category, resourceId, resourceType,
\* resourceName, region, provider, description, recommendation, status,
\* firstDetected.
C19_CsvRoundTrip ==
  CsvReturned =>
    /\ Len(repOutput) = 1 + Len(repResult.vulnerabilities)
    /\ \A n \in 1..Len(repResult.vulnerabilities) :
         /\ ParseCsvLine(repOutput[n + 1]).ok
         /\ Len(ParseCsvLine(repOutput[n + 1]).fields) = 13
         /\ ParseCsvLine(repOutput[n + 1]).fields
              = FieldValues(repResult.vulnerabilities[n])

SarifReturned == repPc = "returned" /\ toLowerCase(repFormat) = "sarif"

\* str is head followed by an underscore, and head has no underscore
IsBeforeFirstUnderscore(head, str) ==
  /\ Len(head) < Len(str)
  /\ SubSeq(str, 1, Len(head)) = head
  /\ str[Len(head) + 1] = "_"
  /\ \A n \in 1..Len(head) : head[n] # "_"

\* C20: the SARIF report has one run; its results and its
\* tool.driver.rules have one entry per vulnerability, in order; entry i
\* has the part of vulnerability i's id before its first underscore as
\* (rule) id, level error for critical or high, warning for medium, note
\* for low, and the vulnerability's resourceId as artifact URI.
C20_Sarif ==
  SarifReturned =>
    /\ Len(repOutput.runs) = 1
    /\ Len(repOutput.runs[1].results) = Len(repResult.vulnerabilities)
    /\ Len(repOutput.runs[1].tool.driver.rules)
         = Len(repResult.vulnerabilities)
    /\ \A n \in 1..Len(repResult.vulnerabilities) :
         LET vuln == repResult.vulnerabilities[n]
             entry == repOutput.runs[1].results[n]
             rule == repOutput.runs[1].tool.driver.rules[n]
         IN  /\ IsBeforeFirstUnderscore(rule.id, vuln.id)
             /\ entry.ruleId = rule.id
             /\ vuln.severity \in {"critical", "high"}
                  => entry.level = "error"
             /\ vuln.severity = "medium" => entry.level = "warning"
             /\ vuln.severity = "low" => entry.level = "note"
             /\ Len(entry.locations) = 1
             /\ entry.locations[1].physicalLocation.artifactLocation.uri
                  = vuln.resourceId

\* a SARIF report of two findings of one rule, on two resources
C20_Witness ==
  /\ SarifReturned
  /\ Len(repResult.vulnerabilities) = 2
  /\ repOutput.runs[1].results[1].ruleId = repOutput.runs[1].results[2].ruleId
  /\ repOutput.runs[1].tool.driver.rules[1].id
       = repOutput.runs[1].tool.driver.rules[2].id
  /\ repOutput.runs[1].results[1].level = "error"
  /\ repResult.vulnerabilities[1].resourceId
       # repResult.vulnerabilities[2].resourceId


\* ---------------------------------------------------------------------
\* C21

JUnitReturned == repPc = "returned" /\ toLowerCase(repFormat) = "junit"

\* the test cases of all suites, as (suite, position) pairs
JUnitCases(report) ==
  {<<i, j>> : i \in 1..Len(report.testsuites), j \in 1..MaxReportVulns + 2}
    \cap {c \in (1..Len(report.testsuites)) \X (1..MaxReportVulns + 2) :
            c[2] <= Len(report.testsuites[c[1]].testcases)}

\* the test case at (suite, position) reports the vulnerability
CaseOf(report, c, vuln) ==
  LET suite == report.testsuites[c[1]]
      case == suite.testcases[c[2]]
  IN  /\ suite.name = vuln.category
      /\ case.name = vuln.title
      /\ case.classname = vuln.resourceType
      /\ "failure" \in DOMAIN case
      /\ case.failure.message = vuln.description
      /\ case.failure.type = vuln.severity
      /\ case.failure.recommendation = vuln.recommendation
      /\ case.failure.resource =
           (IF vuln.resourceName # "" THEN <<vuln.resourceName>>
            ELSE <<vuln.resourceId>>)

RECURSIVE SumTests(_)
SumTests(suites) ==
  IF suites = <<>> THEN 0 ELSE Head(suites).tests + SumTests(Tail(suites))

\* C21: a JUnit report has one suite per category observed among the
\* vulnerabilities, every vulnerability is exactly one test case, with a
\* failure element, of the suite of its category, each suite's tests and
\* failures are the number of vulnerabilities of its category, and these
\* sum to the top-level tests and failures, the total of vulnerabilities
C21_JUnit ==
  JUnitReturned =>
    LET vulns == repResult.vulnerabilities
        suites == repOutput.testsuites
    IN  /\ {suites[i].name : i \in 1..Len(suites)}
             = {vulns[n].category : n \in 1..Len(vulns)}
        /\ \A i, k \in 1..Len(suites) : suites[i].name = suites[k].name => i = k
        /\ \A i \in 1..Len(suites) :
             /\ suites[i].tests =
                  Cardinality({n \in 1..Len(vulns) :
                                 vulns[n].category = suites[i].name})
             /\ suites[i].failures = suites[i].tests
             /\ Len(suites[i].testcases) = suites[i].tests
        /\ \E f \in [1..Len(vulns) -> JUnitCases(repOutput)] :
             /\ \A n, m \in 1..Len(vulns) : f[n] = f[m] => n = m
             /\ \A n \in 1..Len(vulns) : CaseOf(repOutput, f[n], vulns[n])
        /\ Cardinality(JUnitCases(repOutput)) = Len(vulns)
        /\ SumTests(suites) = repOutput.tests
        /\ repOutput.tests = repOutput.failures
        /\ repOutput.tests = repResult.totalVulnerabilities
        /\ repResult.totalVulnerabilities = Len(vulns)

\* a JUnit report with a suite of two test cases, and one with two suites
C21_Witness ==
  /\ JUnitReturned
  /\ \E i \in 1..Len(repOutput.testsuites) : repOutput.testsuites[i].tests = 2

C21_WitnessSuites ==
  /\ JUnitReturned
  /\ Len(repOutput.testsuites) = 2

\* ---------------------------------------------------------------------
\* C22

SupportedFormats == {"json", "html", "csv", "sarif", "junit"}

\* what a first render of the result in the format gives
FreshRender(res, format) ==
  CASE toLowerCase(format) = "json" -> generateJSON(res)
    [] toLowerCase(format) = "html" -> generateHTML(res)
    [] toLowerCase(format) = "csv" -> generateCSV(res)
    [] toLowerCase(format) = "sarif" -> generateSARIF(res)
    [] toLowerCase(format) = "junit" -> generateJUnit(res)

\* C22: a generateReport call with a format outside json, html, csv,
\* sarif and junit fails with the unsupported-format error, writes no file
\* and leaves the result as it was; every call with a supported format,
\* whatever calls came before it, succeeds and returns what a first render
\* of the result in that format returns
C22_RenderLocal ==
  /\ \A k \in 1..Len(repRenders) :
       LET call == repRenders[k]
       IN  /\ call.result = repRenders[1].result
           /\ IF toLowerCase(call.format) \in SupportedFormats
              THEN /\ call.ok
                   /\ call.output = FreshRender(repRenders[1].result, call.format)
              ELSE /\ ~call.ok
                   /\ call.files = call.before
  /\ repRenders # <<>> => repResult = repRenders[1].result
  /\ repPc = "threw" =>
       /\ toLowerCase(repFormat) \notin SupportedFormats
       /\ repError = "Unsupported format: " \o repFormat
       /\ ~repRenders[Len(repRenders)].ok
  /\ repPc = "returned" =>
       /\ toLowerCase(repFormat) \in SupportedFormats
       /\ repOutput = FreshRender(repResult, repFormat)

\* a call with an unsupported format and an output path failed, and the
\* next call rendered the result in a supported format
C22_Witness ==
  /\ Len(repRenders) = 2
  /\ repPath # ""
  /\ ~repRenders[1].ok
  /\ repRenders[2].ok
  /\ repResult.vulnerabilities # <<>>

\* a render in one format came after a successful render in another
C22_WitnessAfterRender ==
  /\ Len(repRenders) = 2
  /\ repRenders[1].ok
  /\ repRenders[2].ok
  /\ repRenders[1].format # repRenders[2].format


\* ---------------------------------------------------------------------
\* C23

\* C23: when resourceTypes is given, getCostAnalysis returns an analysis of
\* those types only: every returned resource has a type in resourceTypes,
\* the breakdown has no other type, and no service of a type that is not
\* listed is called
C23_CostTypesOnly ==
  costResourceTypes.given =>
    /\ costScanned \subseteq Range(costResourceTypes.val)
    /\ costPc = "returned" =>
         /\ \A n \in 1..Len(costResult.resources) :
              Includes(costResourceTypes.val, costResult.resources[n].type)
         /\ DOMAIN costResult.breakdown \subseteq Range(costResourceTypes.val)


\* ---------------------------------------------------------------------
\* C24

\* C24: the security scan of the command line ends with exit code 2 when
\* its result holds a critical vulnerability, otherwise with 1 when it
\* holds a high one, otherwise with 0
C24_ExitCodes ==
  (cliPc = "exited" /\ cliCommand = "security") =>
    cliExit = (IF cliFindings.severityBreakdown["critical"] > 0 THEN 2
               ELSE IF cliFindings.severityBreakdown["high"] > 0 THEN 1
               ELSE 0)


\* ---------------------------------------------------------------------
\* C25

\* C25: every rule.check of a scan is handed a context whose provider is
\* options.provider, whose region is the region of the resource checked,
\* and whose allResources is the whole list discovery returned, the first
\* check included
C25_CheckContext ==
  \A n \in 1..Len(checks) :
    /\ checks[n].ctx.provider = options.provider
    /\ checks[n].ctx.region = resources[checks[n].res].region
    /\ checks[n].ctx.allResources = resources

\* the first check of a scan over two resources was on a resource whose
\* region is not the scan-wide one
C25_Witness ==
  /\ Len(checks) >= 1
  /\ Len(resources) >= 2
  /\ checks[1].res = 1
  /\ resources[1].region # FirstRegionOr(options.regions, "default")
  /\ checks[1].ctx.allResources = resources


\* ---------------------------------------------------------------------
\* C26

\* the steps a scan can take from one phase to the next
PhaseSteps ==
  {<<"idle", "resolving">>, <<"resolving", "discovering">>,
   <<"resolving", "failed">>, <<"discovering", "selecting">>,
   <<"discovering", "failed">>, <<"selecting", "evaluating">>,
   <<"evaluating", "aggregating">>, <<"aggregating", "done">>}

\* C26: a scan goes through its phases in the order discovering, selecting
\* rules, evaluating, aggregating, done: a check is made only in the
\* evaluating phase, after discovery returned, and one at a time;
\* aggregation starts only when every (resource, rule) pair was evaluated;
\* a failed discovery ends the scan as a failure, with no check and no
\* result
C26_Phases ==
  [][/\ pc' # pc => <<pc, pc'>> \in PhaseSteps
     /\ checks' # checks =>
          /\ pc = "evaluating" /\ pc' = "evaluating"
          /\ discoverCalls = 1
          /\ Len(checks') = Len(checks) + 1
          /\ SubSeq(checks', 1, Len(checks)) = checks
          /\ evaluated' = evaluated + 1
     /\ (pc = "evaluating" /\ pc' = "aggregating") =>
          /\ evaluated = Len(Pairs(resources, enabledRules))
          /\ Len(checks) = Len(Pairs(resources, enabledRules))
     /\ result' # result => pc' \in {"aggregating", "done"}
     /\ pc' = "failed" =>
          /\ checks' = <<>>
          /\ result' = NoResult
          /\ error' # ""]_vars

\* a scan evaluated two pairs, aggregated and returned
C26_Witness ==
  /\ pc = "done"
  /\ Len(checks) >= 2
  /\ result.returned

\* a scan whose discovery failed
C26_WitnessFailed ==
  /\ pc = "failed"
  /\ discoverCalls = 1


\* ---------------------------------------------------------------------
\* C27

\* C27: aggregation changes nothing it reads: generateSummary, the
\* breakdowns and the compliance status leave the vulnerability list as
\* evaluation built it, in content and in order, and that list is the
\* result's
C27_AggregationPure ==
  [][(pc = "evaluating" /\ pc' = "aggregating") =>
       /\ vulnerabilities' = vulnerabilities
       /\ result'.vulnerabilities = vulnerabilities]_vars


\* ---------------------------------------------------------------------
\* C29

StorageTypes == {"aws_s3_bucket", "azurerm_storage_account"}

\* C29: MULTI-001 is applied to the storage resources of every provider:
\* once the loops of a scan that selected MULTI-001 are over, every
\* discovered bucket or storage account was checked by MULTI-001, and where
\* that check failed (the resource is not encrypted) the result reports a
\* MULTI-001 vulnerability for the resource
C29_MultiCloudStorage ==
  (/\ pc \in {"aggregating", "done"}
   /\ \E k \in 1..Len(enabledRules) : enabledRules[k].id = <<"MULTI-001">>)
  => \A n \in 1..Len(resources) :
       resources[n].type \in StorageTypes =>
         \E k \in 1..Len(checks) :
           /\ checks[k].res = n
           /\ checks[k].rule.id = <<"MULTI-001">>
           /\ checks[k].outcome = "fail" =>
                \E v \in 1..Len(result.vulnerabilities) :
                  result.vulnerabilities[v].id
                    = <<"MULTI-001", "_">> \o resources[n].id


\* ---------------------------------------------------------------------
\* C28

\* the vulnerabilities of the pairs whose check failed, in loop order
RECURSIVE FailingFrom(_, _, _, _, _)
FailingFrom(pairs, outcomes, list, provider, k) ==
  IF k > Len(pairs) \/ k > Len(outcomes) THEN <<>>
  ELSE (IF outcomes[k] = "fail"
        THEN <<Vulnerability(pairs[k].rule, list[pairs[k].res], provider)>>
        ELSE <<>>)
       \o FailingFrom(pairs, outcomes, list, provider, k + 1)

\* the result of a call as a scan alone on a fresh instance gives it, from
\* the call's options, the engine's config, the list its discovery
\* returned and what its own checks answered
AloneResult(c) ==
  LET rules == GetEnabledRules(initializeRules, scansConfig,
                               scansOptions[c].provider,
                               scansOptions[c].severity,
                               scansOptions[c].categories)
      pairs == Pairs(scansDiscovered[c], rules)
      found == FailingFrom(pairs, scansOutcomes[c], scansDiscovered[c],
                           scansOptions[c].provider, 1)
  IN  IF found = <<>>
      THEN [ScanResult(scansOptions[c].provider, <<>>,
                       Len(scansDiscovered[c])) EXCEPT !.returned = TRUE]
      ELSE [ScanResult(scansOptions[c].provider, found,
                       Len(scansDiscovered[c])) EXCEPT !.returned = TRUE]

\* C28: the scans on one instance are independent: no scan changes the
\* rule catalog or the resources discovery returned, and the result of a
\* scan is the one it gives alone, whatever the other scan on the instance
\* did before it or in between
C28_Independent ==
  /\ scansRules = initializeRules
  /\ \A c \in Calls :
       /\ scansPc[c] \in {"evaluating", "done"} =>
            scansResources[c] = scansDiscovered[c]
       /\ scansPc[c] = "done" => scansResult[c] = AloneResult(c)
       /\ scansPc[c] # "done" => scansResult[c] = NoResult

\* two scans with different options both returned a result that holds a
\* vulnerability
C28_Witness ==
  /\ \A c \in Calls :
       /\ scansPc[c] = "done"
       /\ scansResult[c].totalVulnerabilities >= 1
  /\ scansOptions[1] # scansOptions[2]


\* ---------------------------------------------------------------------
\* C30

\* C30: every scan finishes, by returning a result or by throwing, when
\* discovery and every check it awaits return or throw; the loops take
\* every (resource, rule) pair once, so that no pair is evaluated again,
\* a pair whose check threw included
C30_Terminates ==
  /\ <>(pc \in {"done", "failed"})
  /\ [](\A n, m \in 1..Len(checks) :
          (checks[n].res = checks[m].res /\ checks[n].rule = checks[m].rule)
            => n = m)
  /\ [](Len(checks) = evaluated)

\* a scan returned although one of its checks threw
C30_Witness ==
  /\ pc = "done"
  /\ result.returned
  /\ \E n \in 1..Len(checks) : checks[n].outcome = "throw"
  /\ Len(checks) >= 2

====
